---- MODULE Spec2Model ----
(***************************************************************************)
(* A model of the consensus and synchronisation core of bcoin: the chain   *)
(* store (lib/bcoin/chaindb.js), the peer pool (lib/bcoin/pool.js) and the *)
(* mempool (mempool.js).  Each subsystem has its own specification over    *)
(* its own variables; the variables of the other subsystems stay at their  *)
(* initial values.                                                         *)
(***************************************************************************)
EXTENDS Integers, Sequences, FiniteSets, TLC

VARIABLES
  \* ---- chain store (ChainDB) ----
  opts,        \* options: spv, prune, indexTX, indexAddress, pruneAfterHeight,
               \* and fresh, the content of memory that was not initialised
  db,          \* the key-value store: key record -> value
  batch,       \* the batch of the operation in flight: sequence of put/del
  cop,         \* the operation in flight: kind, block, connect flag, step
  cacheHash,   \* cacheHash: hashes of the cached entries
  cacheHeight, \* cacheHeight: height -> hash of the cached entry
  hist,        \* history of the chain store: snapshots, write count, results
  \* ---- peer pool (Pool) ----
  pool,        \* connected, destroyed, crashed, uid, pid (peer id counter)
  peers,       \* pool.peers: load, regular, pending, leeches, all, map, misbehaving
  peerObj,     \* the Peer objects: id -> host, banScore, queues, ...
  request,     \* pool.request: map, active, activeBlocks, activeTX
  reqObj,      \* the LoadRequest objects: id -> hash, peer, type, active, timeout
  seeds,       \* pool.seeds and pool.originalSeeds
  sched,       \* the clock, the pending timers and the pending callbacks
  ev,          \* the last event of the pool and what it did
  \* ---- mempool (Mempool) ----
  mempool,     \* db, size, spent, total, orphans, waiting, totalOrphans, fee floor
  mev,         \* the last operation of the mempool and its result
  \* ---- scripts ----
  scr          \* the script at hand: raw bytes, instructions, result of a run

chainVars == <<opts, db, batch, cop, cacheHash, cacheHeight, hist>>

poolVars == <<pool, peers, peerObj, request, reqObj, seeds, sched, ev>>

mempoolVars == <<mempool, mev>>

vars == <<chainVars, poolVars, mempoolVars, scr>>

\* what the operations of one subsystem leave alone; the mempool follows
\* the chain, so its operations move the store of the chain too
otherThanChain == <<poolVars, mempoolVars, scr>>
otherThanPool == <<chainVars, mempoolVars, scr>>
otherThanMempool == <<opts, batch, cop, hist, poolVars, scr>>
otherThanScript == <<chainVars, poolVars, mempoolVars>>

(***************************************************************************)
(* Bounds of the model.                                                    *)
(***************************************************************************)
KeepBlocks == 1
PruneAfterHeight == 1
Size == 2
MaxLeeches == 1
MaxPeers == 3
MaxRequests == 2
MaxTicks == 1
MaxChecks == 2
SyncPeers == 2
MaxHeaders == 2
MaxSize == 1000
MaxOrphanTx == 2
MaxTotal == 4
MaxDrift == 2
MaxHalvings == 2
MaxCallbacks == 2
MaxOrphans == 1
MaxResets == 1
MaxRaw == 4

(***************************************************************************)
(* The universe of transactions and blocks of the chain store.             *)
(***************************************************************************)
NULL_HASH == "0"

Prev(h, i) == [hash |-> h, index |-> i]
Out(v, s) == [value |-> v, script |-> s]

\* script ids: 0 is an unspendable script (OP_RETURN), 1 and 2 pay an address
IsUnspendable(output) == output.script = 0

Coinbase(h, v) == [hash |-> h, inputs |-> <<Prev(NULL_HASH, 0)>>, outputs |-> <<Out(v, 1)>>]

TxTable ==
  [ cbG  |-> Coinbase("cbG", 50),
    cb1  |-> Coinbase("cb1", 51),
    cb2  |-> Coinbase("cb2", 52),
    cb3  |-> Coinbase("cb3", 53),
    cb2x |-> Coinbase("cb2x", 54),
    t1   |-> [hash |-> "t1", inputs |-> <<Prev("cb1", 0)>>,
              outputs |-> <<Out(20, 1), Out(30, 2)>>],
    t2   |-> [hash |-> "t2", inputs |-> <<Prev("t1", 0)>>,
              outputs |-> <<Out(0, 0), Out(19, 2)>>],
    t3   |-> [hash |-> "t3", inputs |-> <<Prev("t1", 1), Prev("cb2", 0)>>,
              outputs |-> <<Out(78, 1)>>],
    t4   |-> [hash |-> "t4", inputs |-> <<Prev("cb1", 0)>>,
              outputs |-> <<Out(49, 2)>>],
    t5   |-> [hash |-> "t5", inputs |-> <<Prev("t2", 1)>>,
              outputs |-> <<Out(18, 1)>>],
    t6   |-> [hash |-> "t6", inputs |-> <<Prev("t4", 0)>>,
              outputs |-> <<Out(48, 1)>>],
    t7   |-> [hash |-> "t7", inputs |-> <<Prev("t5", 0), Prev("cb2", 0)>>,
              outputs |-> <<Out(69, 2)>>] ]

IsCoinbase(tx) == Len(tx.inputs) = 1 /\ tx.inputs[1].hash = NULL_HASH

BlockTable ==
  [ G   |-> [hash |-> "G",   prevBlock |-> NULL_HASH, height |-> 0, txs |-> <<"cbG">>],
    B1  |-> [hash |-> "B1",  prevBlock |-> "G",  height |-> 1, txs |-> <<"cb1">>],
    B2  |-> [hash |-> "B2",  prevBlock |-> "B1", height |-> 2, txs |-> <<"cb2", "t1", "t2">>],
    B3  |-> [hash |-> "B3",  prevBlock |-> "B2", height |-> 3, txs |-> <<"cb3", "t3">>],
    B2x |-> [hash |-> "B2x", prevBlock |-> "B1", height |-> 2, txs |-> <<"cb2x", "t4">>] ]

BlockHashes == DOMAIN BlockTable
GenesisHash == "G"
IsGenesis(block) == block.hash = GenesisHash

BlockTx(block, i) == TxTable[block.txs[i]]
Entry(block) == [hash |-> block.hash, prevBlock |-> block.prevBlock, height |-> block.height]

(***************************************************************************)
(* Keys of the store (database layout) and the batch.                     *)
(***************************************************************************)
K(p, h, i, a) == [p |-> p, h |-> h, i |-> i, a |-> a]
KR == K("R", "", 0, 0)
Ke(h) == K("e", h, 0, 0)
Kh(h) == K("h", h, 0, 0)
KH(n) == K("H", "", n, 0)
Kn(h) == K("n", h, 0, 0)
Kb(h) == K("b", h, 0, 0)
Ku(h) == K("u", h, 0, 0)
Kc(h, i) == K("c", h, i, 0)
Kt(h) == K("t", h, 0, 0)
KT(a, h) == K("T", h, 0, a)
KC(a, h, i) == K("C", h, i, a)
Kq(n) == K("b/q", "", n, 0)

Put(k, v) == [op |-> "put", key |-> k, val |-> <<v>>]
Del(k) == [op |-> "del", key |-> k, val |-> <<>>]

Has(d, k) == k \in DOMAIN d

ApplyOp(d, o) ==
  IF o.op = "put"
    THEN [k \in DOMAIN d \cup {o.key} |-> IF k = o.key THEN o.val[1] ELSE d[k]]
    ELSE [k \in DOMAIN d \ {o.key} |-> d[k]]

RECURSIVE ApplyBatch(_, _)
ApplyBatch(d, ops) ==
  IF ops = <<>> THEN d ELSE ApplyBatch(ApplyOp(d, Head(ops)), Tail(ops))

RECURSIVE Concat(_)
Concat(seqs) == IF seqs = <<>> THEN <<>> ELSE Head(seqs) \o Concat(Tail(seqs))

(***************************************************************************)
(* Coins and their serialization.  A coin record is the fixed-width        *)
(* sequence height, value, script, coinbase flag; an undo record is the    *)
(* concatenation of coin records.                                          *)
(***************************************************************************)
CoinWidth == 4
DUMMY == 0

CoinFromTX(tx, j, height) ==
  [height |-> height, value |-> tx.outputs[j + 1].value,
   script |-> tx.outputs[j + 1].script, coinbase |-> IsCoinbase(tx)]

CoinToRaw(coin) ==
  <<coin.height, coin.value, coin.script, IF coin.coinbase THEN 1 ELSE 0>>

ParseCoin(data) ==
  [height |-> data[1], value |-> data[2], script |-> data[3], coinbase |-> data[4] = 1]

\* getCoin: the coin of an outpoint, <<coin>>, or <<>> when the store has none
getCoin(d, prev) ==
  IF Has(d, Kc(prev.hash, prev.index))
    THEN <<ParseCoin(d[Kc(prev.hash, prev.index)])>>
    ELSE <<>>

\* getUndoCoins: parse coins while data is left
RECURSIVE getUndoCoins(_)
getUndoCoins(data) ==
  IF Len(data) < CoinWidth THEN <<>>
  ELSE <<ParseCoin(SubSeq(data, 1, CoinWidth))>>
         \o getUndoCoins(SubSeq(data, CoinWidth + 1, Len(data)))

(***************************************************************************)
(* fillBlock: coins of the inputs of a block, from the store first and     *)
(* then from the outputs of the earlier transactions of the block.  The    *)
(* result has, per transaction, the sequence of its inputs' coins, each    *)
(* <<coin>> or <<>>.                                                       *)
(***************************************************************************)
OutKeys(tx) == {<<tx.hash, j - 1>> : j \in 1..Len(tx.outputs)}

RECURSIVE FillInputs(_, _, _, _, _)
FillInputs(tx, d, j, coins, got) ==
  IF j > Len(tx.inputs) THEN [coins |-> coins, got |-> got]
  ELSE LET prev == tx.inputs[j]
           key == <<prev.hash, prev.index>>
           stored == IF IsCoinbase(tx) THEN <<>> ELSE getCoin(d, prev)
       IN IF stored = <<>> /\ key \in DOMAIN coins
            THEN FillInputs(tx, d, j + 1, [k \in DOMAIN coins \ {key} |-> coins[k]],
                            Append(got, <<coins[key]>>))
            ELSE FillInputs(tx, d, j + 1, coins, Append(got, stored))

RECURSIVE FillTxs(_, _, _, _, _)
FillTxs(block, d, i, coins, filled) ==
  IF i > Len(block.txs) THEN filled
  ELSE LET tx == BlockTx(block, i)
           r == FillInputs(tx, d, 1, coins, <<>>)
           created == [k \in DOMAIN r.coins \cup OutKeys(tx) |->
                         IF k \in OutKeys(tx)
                           THEN CoinFromTX(tx, k[2], block.height)
                           ELSE r.coins[k]]
       IN FillTxs(block, d, i + 1, created, Append(filled, r.got))

fillBlock(block, d) == FillTxs(block, d, 1, <<>>, <<>>)

\* every non-coinbase input of the block has its coin
AllFilled(block, filled) ==
  \A i \in 1..Len(block.txs) :
    IsCoinbase(BlockTx(block, i))
      \/ \A j \in 1..Len(filled[i]) : filled[i][j] # <<>>

\* fillHistoryBlock: input.coin = coins[k++] over the non-coinbase
\* transactions in order
RECURSIVE FillHistoryTxs(_, _, _, _)
FillHistoryTxs(block, coins, i, filled) ==
  IF i > Len(block.txs) THEN filled
  ELSE LET tx == BlockTx(block, i)
           n == Len(tx.inputs)
       IN IF IsCoinbase(tx)
            THEN FillHistoryTxs(block, coins, i + 1, Append(filled, [j \in 1..n |-> <<>>]))
            ELSE FillHistoryTxs(block,
                   IF Len(coins) > n THEN SubSeq(coins, n + 1, Len(coins)) ELSE <<>>,
                   i + 1,
                   Append(filled, [j \in 1..n |->
                                     IF j <= Len(coins) THEN <<coins[j]>> ELSE <<>>]))

fillHistoryBlock(block, d) ==
  IF Has(d, Ku(block.hash))
    THEN FillHistoryTxs(block, getUndoCoins(d[Ku(block.hash)]), 1, <<>>)
    ELSE [i \in 1..Len(block.txs) |-> [j \in 1..Len(BlockTx(block, i).inputs) |-> <<>>]]

(***************************************************************************)
(* connectBlock and disconnectBlock: the operations staged in the batch.   *)
(***************************************************************************)
AddrSeq(S) == SelectSeq(<<1, 2>>, LAMBDA a : a \in S)

\* tx.getHashes(): the addresses of the inputs' coins and of the outputs
getHashes(tx, coins) ==
  AddrSeq({coins[j][1].script : j \in {x \in 1..Len(coins) : coins[x] # <<>>}}
          \cup {tx.outputs[j].script : j \in 1..Len(tx.outputs)})

InputOrder_Reversed(tx) == [j \in 1..Len(tx.inputs) |-> Len(tx.inputs) + 1 - j]

\* the inputs of a transaction in the order connectBlock traverses them
InputOrder(tx) == [j \in 1..Len(tx.inputs) |-> j]

ConnectInputOps(o, tx, coins) ==
  IF IsCoinbase(tx) THEN <<>>
  ELSE Concat([x \in 1..Len(tx.inputs) |->
         LET j == InputOrder(tx)[x]
             prev == tx.inputs[j]
         IN (IF o.indexAddress /\ coins[j][1].script # 0
               THEN <<Del(KC(coins[j][1].script, prev.hash, prev.index))>>
               ELSE <<>>)
            \o <<Del(Kc(prev.hash, prev.index))>>])

\* Framer.coin(input.coin, false, undo) for the inputs of a transaction
UndoOfTx(tx, coins) ==
  IF IsCoinbase(tx) THEN <<>>
  ELSE Concat([x \in 1..Len(tx.inputs) |-> CoinToRaw(coins[InputOrder(tx)[x]][1])])

ConnectOutputOps(o, tx, height) ==
  Concat([j \in 1..Len(tx.outputs) |->
    IF IsUnspendable(tx.outputs[j]) THEN <<>>
    ELSE (IF o.indexAddress
            THEN <<Put(KC(tx.outputs[j].script, tx.hash, j - 1), DUMMY)>>
            ELSE <<>>)
         \o <<Put(Kc(tx.hash, j - 1), CoinToRaw(CoinFromTX(tx, j - 1, height)))>>])

ConnectIndexOps(o, tx, coins, block) ==
  IF o.indexTX
    THEN <<Put(Kt(tx.hash), [hash |-> tx.hash, block |-> block.hash, height |-> block.height])>>
         \o (IF o.indexAddress
               THEN LET as == getHashes(tx, coins)
                    IN [x \in 1..Len(as) |-> Put(KT(as[x], tx.hash), DUMMY)]
               ELSE <<>>)
    ELSE <<>>

\* the body of connectBlock up to _pruneBlock, for a filled block
connectBlock(o, block, filled) ==
  LET perTx == [i \in 1..Len(block.txs) |->
                  ConnectIndexOps(o, BlockTx(block, i), filled[i], block)
                  \o ConnectInputOps(o, BlockTx(block, i), filled[i])
                  \o ConnectOutputOps(o, BlockTx(block, i), block.height)]
      undo == Concat([i \in 1..Len(block.txs) |-> UndoOfTx(BlockTx(block, i), filled[i])])
  IN Concat(perTx)
     \o (IF Len(undo) > 0 THEN <<Put(Ku(block.hash), undo)>> ELSE <<>>)

DisconnectTxOps(o, tx, coins) ==
  (IF o.indexTX
     THEN <<Del(Kt(tx.hash))>>
          \o (IF o.indexAddress
                THEN LET as == getHashes(tx, coins)
                     IN [x \in 1..Len(as) |-> Del(KT(as[x], tx.hash))]
                ELSE <<>>)
     ELSE <<>>)
  \o (IF IsCoinbase(tx) THEN <<>>
      ELSE Concat([j \in 1..Len(tx.inputs) |->
             (IF o.indexAddress /\ coins[j][1].script # 0
                THEN <<Put(KC(coins[j][1].script, tx.inputs[j].hash, tx.inputs[j].index), DUMMY)>>
                ELSE <<>>)
             \o <<Put(Kc(tx.inputs[j].hash, tx.inputs[j].index), CoinToRaw(coins[j][1]))>>]))
  \o Concat([j \in 1..Len(tx.outputs) |->
       IF IsUnspendable(tx.outputs[j]) THEN <<>>
       ELSE (IF o.indexAddress
               THEN <<Del(KC(tx.outputs[j].script, tx.hash, j - 1))>>
               ELSE <<>>)
            \o <<Del(Kc(tx.hash, j - 1))>>])

disconnectBlock_Forward(o, block, filled) ==
  Concat([x \in 1..Len(block.txs) |-> DisconnectTxOps(o, BlockTx(block, x), filled[x])])
  \o <<Del(Ku(block.hash))>>

\* the body of disconnectBlock for a block filled with its undo coins:
\* the transactions are undone in reverse order
disconnectBlock(o, block, filled) ==
  LET n == Len(block.txs)
  IN Concat([x \in 1..n |-> DisconnectTxOps(o, BlockTx(block, n + 1 - x), filled[n + 1 - x])])
     \o <<Del(Ku(block.hash))>>

\* _pruneBlock: whether the block is queued for pruning at all
Prunes(o, block) == ~o.spv /\ o.prune /\ block.height > o.pruneAfterHeight

pruneBlock_KeepBody(d, block) ==
  <<Put(Kq(block.height + KeepBlocks), block.hash)>>
  \o (IF Has(d, Kq(block.height))
        THEN <<Del(Kq(block.height)), Del(Ku(d[Kq(block.height)]))>>
        ELSE <<>>)

\* _pruneBlock: the operations staged once the queue record was fetched
pruneBlock(d, block) ==
  <<Put(Kq(block.height + KeepBlocks), block.hash)>>
  \o (IF Has(d, Kq(block.height))
        THEN <<Del(Kq(block.height)), Del(Kb(d[Kq(block.height)])),
               Del(Ku(d[Kq(block.height)]))>>
        ELSE <<>>)

\* writeUInt32LE
U32LE(x) == <<x % 256, (x \div 256) % 256, (x \div 65536) % 256, (x \div 16777216) % 256>>

NaN == 0 - 1

\* what new Buffer(4) may hold before it is written: memory that was not
\* initialised, here zero bytes or the characters "1   "
Uninit == {<<0, 0, 0, 0>>, <<49, 32, 32, 32>>}

\* +buffer: the number the characters of the buffer spell, NaN otherwise
toNumber(b) ==
  IF b[1] \in 48..57 /\ \A i \in 2..4 : b[i] = 32 THEN b[1] - 48 ELSE NaN

\* the bytes writeUInt32LE(value, 0, true) leaves: NaN is stored as zero
writeUInt32LE(value) == U32LE(IF value = NaN THEN 0 ELSE value)

\* readUInt32LE(0, true)
readUInt32LE(b) == b[1] + b[2] * 256 + b[3] * 65536 + b[4] * 16777216

\* save: the synchronous part.  The height buffer is written with the
\* buffer itself as the value, never with the height of the entry.
saveOps(block, connect) ==
  <<Put(Kh(block.hash), writeUInt32LE(toNumber(opts.fresh))),
    Put(Ke(block.hash), Entry(block))>>
  \o (IF connect
        THEN <<Put(Kn(block.prevBlock), block.hash), Put(KH(block.height), block.hash),
               Put(KR, block.hash)>>
        ELSE <<>>)

saveBlock_Always(o, block) == <<Put(Kb(block.hash), block.hash)>>

\* saveBlock: the block record
saveBlock(o, block) == IF o.spv THEN <<>> ELSE <<Put(Kb(block.hash), block.hash)>>

\* connect: the synchronous part
connectOps(block) ==
  <<Put(Kn(block.prevBlock), block.hash), Put(KH(block.height), block.hash),
    Put(KR, block.hash)>>

\* disconnect: the synchronous part
disconnectOps(block) ==
  <<Del(Kn(block.prevBlock)), Del(KH(block.height)), Put(KR, block.prevBlock)>>

(***************************************************************************)
(* State of the chain store.                                               *)
(***************************************************************************)
Idle == [kind |-> "idle", hash |-> "", connect |-> FALSE, step |-> "", target |-> ""]

EmptyDb == [k \in {} |-> 0]

Tip(d) == d[KR]

IsMainChain(d, block) == Has(d, KH(block.height)) /\ d[KH(block.height)] = block.hash

Restrict(d, P) == [k \in {x \in DOMAIN d : x.p \in P} |-> d[k]]

\* pruneAfterHeight is a parameter of the network the node is started for
Options ==
  [spv : BOOLEAN, prune : BOOLEAN, indexTX : BOOLEAN, indexAddress : BOOLEAN,
   pruneAfterHeight : 0..PruneAfterHeight, fresh : Uninit]

\* _init: an empty store gets the genesis block through save(entry, block, true)
InitChain ==
  /\ opts \in Options
  /\ db = ApplyBatch(EmptyDb, saveOps(BlockTable[GenesisHash], TRUE)
                                \o saveBlock(opts, BlockTable[GenesisHash]))
  /\ batch = <<>>
  /\ cop = Idle
  /\ cacheHash = {GenesisHash}
  /\ cacheHeight = (0 :> GenesisHash)
  /\ hist = [start |-> EmptyDb, writes |-> 0, result |-> "none", pruned |-> {},
             snaps |-> EmptyDb, rt |-> <<>>, last |-> Idle, resets |-> 0,
             above |-> {}]

Begin(kind, h, connect) ==
  /\ cop' = [kind |-> kind, hash |-> h, connect |-> connect, step |-> "block",
             target |-> ""]
  /\ hist' = [hist EXCEPT !.start = db, !.writes = 0, !.result = "none",
                          !.pruned = {}, !.rt = <<>>, !.above = {}]

\* Chain#add hands the store the blocks whose parent is the tip (connect) or
\* a competing block that does not have more work than the tip (no connect)
CanSave(h, connect) ==
  LET block == BlockTable[h]
  IN /\ ~Has(db, Ke(h))
     /\ Has(db, Ke(block.prevBlock))
     /\ IF connect
          THEN /\ block.prevBlock = Tip(db)
               /\ opts.spv \/ AllFilled(block, fillBlock(block, db))
          ELSE block.prevBlock # Tip(db) /\ block.height <= BlockTable[Tip(db)].height

\* save(entry, block, connect)
Save(h, connect) ==
  /\ cop = Idle
  /\ CanSave(h, connect)
  /\ batch' = saveOps(BlockTable[h], connect)
  /\ cacheHash' = cacheHash \cup {h}
  /\ cacheHeight' = IF connect
                      THEN (BlockTable[h].height :> h) @@ cacheHeight
                      ELSE cacheHeight
  /\ Begin("save", h, connect)
  /\ UNCHANGED <<opts, db>> /\ UNCHANGED otherThanChain

\* connect(entry, block): a stored block of a competing chain becomes the tip
Connect(h) ==
  LET block == BlockTable[h]
  IN /\ cop = Idle
     /\ Has(db, Ke(h))
     /\ ~IsMainChain(db, block)
     /\ block.prevBlock = Tip(db)
     /\ opts.spv \/ (Has(db, Kb(h)) /\ AllFilled(block, fillBlock(block, db)))
     /\ batch' = connectOps(block)
     /\ cacheHash' = cacheHash \cup {h}
     /\ cacheHeight' = (block.height :> h) @@ cacheHeight
     /\ Begin("connect", h, TRUE)
     /\ UNCHANGED <<opts, db>> /\ UNCHANGED otherThanChain

\* disconnect(entry): the tip is taken off the chain
Disconnect ==
  LET block == BlockTable[Tip(db)]
  IN /\ cop = Idle
     /\ block.hash # GenesisHash
     /\ batch' = disconnectOps(block)
     /\ cacheHeight' = [n \in DOMAIN cacheHeight \ {block.height} |-> cacheHeight[n]]
     /\ Begin("disconnect", block.hash, FALSE)
     /\ UNCHANGED <<opts, db, cacheHash>> /\ UNCHANGED otherThanChain

Finish(result) ==
  /\ cop' = Idle
  /\ batch' = <<>>
  /\ hist' = [hist EXCEPT !.result = result, !.last = cop]

\* saveBlock and connectBlock of a save or connect in flight: the block
\* record, then the coins, the undo record and the indexes of the block
ConnectBlockStep ==
  LET block == BlockTable[cop.hash]
      stored == IF cop.kind = "save" THEN saveBlock(opts, block) ELSE <<>>
  IN /\ cop.step = "block"
     /\ cop.kind \in {"save", "connect"}
     /\ IF opts.spv \/ ~cop.connect \/ IsGenesis(block)
          THEN /\ batch' = batch \o stored
               /\ cop' = [cop EXCEPT !.step = "write"]
          ELSE /\ batch' = batch \o stored
                             \o connectBlock(opts, block, fillBlock(block, db))
               /\ cop' = [cop EXCEPT !.step =
                            IF Prunes(opts, block) THEN "prune" ELSE "write"]
     /\ UNCHANGED <<opts, db, cacheHash, cacheHeight, hist>> /\ UNCHANGED otherThanChain

\* _pruneBlock: the block is queued and the block due at this height is
\* dropped with its undo record
PruneStep ==
  LET block == BlockTable[cop.hash]
  IN /\ cop.step = "prune"
     /\ batch' = batch \o pruneBlock(db, block)
     /\ cop' = [cop EXCEPT !.step = "write"]
     /\ hist' = [hist EXCEPT !.pruned =
                   IF Has(db, Kq(block.height)) THEN {db[Kq(block.height)]} ELSE {}]
     /\ UNCHANGED <<opts, db, cacheHash, cacheHeight>> /\ UNCHANGED otherThanChain

PruneFails_Writes ==
  /\ cop.step = "prune"
  /\ db' = ApplyBatch(db, batch)
  /\ Finish("err")
  /\ UNCHANGED <<opts, cacheHash, cacheHeight>> /\ UNCHANGED otherThanChain

\* _pruneBlock: the fetch of the queue record fails
PruneFails ==
  /\ cop.step = "prune"
  /\ Finish("err")
  /\ UNCHANGED <<opts, db, cacheHash, cacheHeight>> /\ UNCHANGED otherThanChain

\* disconnectBlock of a disconnect in flight
DisconnectBlockStep ==
  LET block == BlockTable[cop.hash]
      filled == fillHistoryBlock(block, db)
  IN /\ cop.step = "block"
     /\ cop.kind = "disconnect"
     /\ IF opts.spv
          THEN batch' = batch
          ELSE /\ Has(db, Kb(cop.hash))
               /\ AllFilled(block, filled)
               /\ batch' = batch \o disconnectBlock(opts, block, filled)
     /\ cop' = [cop EXCEPT !.step = "write"]
     /\ UNCHANGED <<opts, db, cacheHash, cacheHeight, hist>> /\ UNCHANGED otherThanChain

\* disconnectBlock: 'Block not found.', or an input without its undo coin
DisconnectFails ==
  LET block == BlockTable[cop.hash]
  IN /\ cop.step = "block"
     /\ cop.kind = "disconnect"
     /\ ~opts.spv
     /\ ~Has(db, Kb(cop.hash)) \/ ~AllFilled(block, fillHistoryBlock(block, db))
     /\ Finish("err")
     /\ UNCHANGED <<opts, db, cacheHash, cacheHeight>> /\ UNCHANGED otherThanChain

CoinsAndUndo(d) == Restrict(d, {"c", "u"})

\* batch.write succeeds: the staged operations reach the store together
Write ==
  /\ cop.step = "write"
  /\ cop.kind # "reset"
  /\ db' = ApplyBatch(db, batch)
  /\ cop' = Idle
  /\ batch' = <<>>
  /\ hist' = [hist EXCEPT
       !.writes = @ + 1,
       !.result = "ok",
       !.last = cop,
       !.snaps = IF cop.connect
                   THEN (cop.hash :> [before |-> CoinsAndUndo(hist.start),
                                      pruned |-> hist.pruned]) @@ @
                   ELSE @,
       !.rt = IF cop.kind = "disconnect" /\ cop.hash \in DOMAIN hist.snaps
                THEN <<[block |-> cop.hash] @@ hist.snaps[cop.hash]>>
                ELSE <<>>]
  /\ UNCHANGED <<opts, cacheHash, cacheHeight>> /\ UNCHANGED otherThanChain

\* batch.write fails: nothing reaches the store
WriteFails ==
  /\ cop.step = "write"
  /\ Finish("err")
  /\ UNCHANGED <<opts, db, cacheHash, cacheHeight>> /\ UNCHANGED otherThanChain

\* what reset can be asked for: a hash or a height
Targets ==
  {[by |-> "hash", hash |-> h, height |-> 0] : h \in BlockHashes}
    \cup {[by |-> "height", hash |-> "", height |-> BlockTable[h].height] :
             h \in BlockHashes}

\* getHash(height): the height cache, then H/; a hash is returned as it is
getHash(d, t) ==
  IF t.by = "hash" THEN t.hash
  ELSE IF t.height \in DOMAIN cacheHeight THEN cacheHeight[t.height]
  ELSE IF Has(d, KH(t.height)) THEN d[KH(t.height)]
  ELSE ""

\* getEntry(hash): the entry cache, then e/; "" when there is no entry
getEntry(d, hash) ==
  IF hash # "" /\ (hash \in cacheHash \/ Has(d, Ke(hash))) THEN hash ELSE ""

\* removeBlock(hash, batch) of the chain store
removeBlockOps(o, d, block) ==
  IF o.spv \/ ~Has(d, Kb(block.hash)) THEN <<>>
  ELSE <<Del(Kb(block.hash))>> \o disconnectBlock(o, block, fillHistoryBlock(block, d))

\* reset(block): the entry to go back to and the tip are looked up
Reset(t) ==
  LET entry == getEntry(db, getHash(db, t))
      tip == getEntry(db, Tip(db))
  IN /\ cop = Idle
     /\ hist.resets < MaxResets
     /\ entry # "" /\ tip # ""
     /\ cop' = [kind |-> "reset", hash |-> tip, connect |-> FALSE, step |-> "block",
                target |-> entry]
     /\ cacheHash' = cacheHash \cup {entry, tip}
     /\ batch' = <<>>
     /\ hist' = [hist EXCEPT !.start = db, !.writes = 0, !.result = "none",
                             !.pruned = {}, !.rt = <<>>, !.snaps = EmptyDb,
                             !.resets = @ + 1,
                             !.above = IF IsMainChain(db, BlockTable[entry])
                                         THEN {h \in BlockHashes :
                                                 /\ IsMainChain(db, BlockTable[h])
                                                 /\ BlockTable[h].height > BlockTable[entry].height}
                                         ELSE {}]
     /\ UNCHANGED <<opts, db, cacheHeight>> /\ UNCHANGED otherThanChain

\* reset, one round of next(): the tip record is written when the tip is the
\* entry asked for, otherwise the tip is taken out of the indexes and its
\* block is removed
ResetStep ==
  LET tip == BlockTable[cop.hash]
      found == ~opts.spv /\ Has(db, Kb(tip.hash))
  IN /\ cop.kind = "reset" /\ cop.step = "block"
     /\ IF cop.hash = cop.target
          THEN /\ batch' = <<Put(KR, tip.hash)>>
               /\ cop' = [cop EXCEPT !.step = "write"]
               /\ UNCHANGED hist
          ELSE IF found /\ ~AllFilled(tip, fillHistoryBlock(tip, db))
            THEN Finish("err")
          ELSE /\ batch' = <<Del(KH(tip.height)), Del(Kh(tip.hash)), Del(Ke(tip.hash)),
                             Del(Kn(tip.prevBlock))>>
                             \o removeBlockOps(opts, db, tip)
               /\ cop' = [cop EXCEPT !.step = "write"]
               /\ UNCHANGED hist
     /\ UNCHANGED <<opts, db, cacheHash, cacheHeight>> /\ UNCHANGED otherThanChain

\* reset: the batch of a round is written; after the last round the reset is
\* over, otherwise the entry before the tip is the next tip
ResetWrite ==
  LET tip == BlockTable[cop.hash]
      after == ApplyBatch(db, batch)
      prev == getEntry(after, tip.prevBlock)
  IN /\ cop.kind = "reset" /\ cop.step = "write"
     /\ db' = after
     /\ batch' = <<>>
     /\ IF cop.hash = cop.target \/ prev = ""
          THEN /\ cop' = Idle
               /\ hist' = [hist EXCEPT !.writes = @ + 1, !.result = "ok", !.last = cop]
               /\ UNCHANGED cacheHash
          ELSE /\ cop' = [cop EXCEPT !.hash = prev, !.step = "block"]
               /\ hist' = [hist EXCEPT !.start = after]
               /\ cacheHash' = cacheHash \cup {prev}
     /\ UNCHANGED <<opts, cacheHeight>> /\ UNCHANGED otherThanChain

NextChain ==
  \/ \E h \in BlockHashes, connect \in BOOLEAN : Save(h, connect)
  \/ \E h \in BlockHashes : Connect(h)
  \/ Disconnect
  \/ ConnectBlockStep
  \/ PruneStep
  \/ PruneFails
  \/ DisconnectBlockStep
  \/ DisconnectFails
  \/ Write
  \/ WriteFails

\* the chain store with reset
NextReset ==
  \/ NextChain
  \/ \E t \in Targets : Reset(t)
  \/ ResetStep
  \/ ResetWrite


(***************************************************************************)
(* Properties of the chain store.                                          *)
(***************************************************************************)
\* the non-coinbase inputs of a block in traversal order, as <<i, j>>
SpentInputs(block) ==
  Concat([i \in 1..Len(block.txs) |->
            IF IsCoinbase(BlockTx(block, i)) THEN <<>>
            ELSE [j \in 1..Len(BlockTx(block, i).inputs) |-> <<i, j>>]])

\* the coin an input removed: the record the store had before the connect,
\* or the output of the transaction of the same block that created it
RemovedCoin(block, before, ij) ==
  LET prev == BlockTx(block, ij[1]).inputs[ij[2]]
  IN IF Has(before, Kc(prev.hash, prev.index))
       THEN ParseCoin(before[Kc(prev.hash, prev.index)])
       ELSE CoinFromTX(TxTable[prev.hash], prev.index, block.height)

WithoutUndoOf(d, hashes) ==
  [k \in {x \in DOMAIN d : ~(x.p = "u" /\ x.h \in hashes)} |-> d[k]]

RoundTripDone == cop = Idle /\ hist.result = "ok" /\ hist.rt # <<>>

ConnectDone ==
  /\ cop = Idle
  /\ hist.result = "ok"
  /\ hist.last.connect
  /\ ~opts.spv
  /\ hist.last.hash # GenesisHash

\* C1 as stated: after connect(B) and then disconnect(B) the c/ and u/
\* keyspaces are identical to what they were before the connect.
C1_AsStated ==
  RoundTripDone => CoinsAndUndo(db) = hist.rt[1].before

\* C1: after connect(B) and then disconnect(B) the c/ keyspace is identical
\* to what it was before the connect, and so is the u/ keyspace except for
\* the undo record of the block that pruning dropped during connect(B).
C1_RoundTrip ==
  RoundTripDone =>
    WithoutUndoOf(CoinsAndUndo(db), hist.rt[1].pruned)
      = WithoutUndoOf(hist.rt[1].before, hist.rt[1].pruned)

\* a block with spending transactions went through connect and disconnect,
\* and its connect pruned an undo record
C1_Witness ==
  /\ RoundTripDone
  /\ hist.rt[1].block = "B3"
  /\ \E g \in hist.rt[1].pruned : Has(hist.rt[1].before, Ku(g))

\* C9: the key updates of a save, connect or disconnect are staged in one
\* batch that is written at most once; nothing reaches the store before the
\* write, and nothing at all when a step fails.
C9_SingleBatch ==
  /\ cop # Idle => db = hist.start /\ hist.writes = 0
  /\ cop = Idle /\ hist.result = "err" => db = hist.start /\ hist.writes = 0
  /\ cop = Idle /\ hist.result = "ok" => hist.writes = 1

\* a connect failed after its coins were staged and the store is untouched
C9_Witness ==
  /\ cop = Idle
  /\ hist.result = "err"
  /\ hist.last.step \in {"prune", "write"}
  /\ hist.last.hash = "B2"
  /\ hist.last.connect

\* C10: the undo record of a connected block holds exactly the coins the
\* connect removed, one per non-coinbase input in traversal order, so that
\* reading it back gives every input the coin it spent.
C10_UndoRecord ==
  ConnectDone =>
    LET block == BlockTable[hist.last.hash]
        spent == SpentInputs(block)
        before == CoinsAndUndo(hist.start)
        filled == fillHistoryBlock(block, db)
    IN /\ Has(db, Ku(block.hash)) <=> Len(spent) > 0
       /\ Len(spent) > 0 =>
            /\ getUndoCoins(db[Ku(block.hash)])
                 = [x \in 1..Len(spent) |-> RemovedCoin(block, before, spent[x])]
            /\ \A x \in 1..Len(spent) :
                 filled[spent[x][1]][spent[x][2]]
                   = <<RemovedCoin(block, before, spent[x])>>

\* a block whose transaction spends two different coins is connected
C10_Witness ==
  /\ ConnectDone
  /\ hist.last.hash = "B3"
  /\ Has(db, Ku("B3"))
  /\ Len(getUndoCoins(db[Ku("B3")])) = 2


\* getHeight(hash): the entry cache, then h/; -1 when there is no record
getHeight(d, cache, hash) ==
  IF hash = NULL_HASH THEN 0 - 1
  ELSE IF hash \in cache THEN BlockTable[hash].height
  ELSE IF Has(d, Kh(hash)) THEN readUInt32LE(d[Kh(hash)])
  ELSE 0 - 1

\* C30 as stated: after a save the record h/<hash> holds the height of the
\* entry as four little-endian bytes, and a lookup of the height by the hash
\* that misses the cache and reads the store returns the height of the entry.
C30_AsStated ==
  cop = Idle /\ hist.result = "ok" /\ hist.last.kind = "save" =>
    /\ db[Kh(hist.last.hash)] = U32LE(BlockTable[hist.last.hash].height)
    /\ getHeight(db, {}, hist.last.hash) = BlockTable[hist.last.hash].height

\* the store alone: no record of the hash is left under H/, h/, e/, n/, b/
StoreHolds(d, h) ==
  \/ IsMainChain(d, BlockTable[h])
  \/ Has(d, Kh(h)) \/ Has(d, Ke(h)) \/ Has(d, Kb(h))
  \/ Has(d, Kn(BlockTable[h].prevBlock))

\* C37 as stated: after reset(b) for a block b of the main chain the tip
\* record R holds the hash of b, and every entry that was above b on the main
\* chain has lost its H/, h/, e/, n/ and block records and is no longer
\* returned by the chain store for its hash or for its height.
C37_AsStated ==
  cop = Idle /\ hist.result = "ok" /\ hist.last.kind = "reset" /\ hist.above # {} =>
    /\ Tip(db) = hist.last.target
    /\ \A h \in hist.above :
         /\ ~StoreHolds(db, h)
         /\ getEntry(db, h) = ""
         /\ getEntry(db, getHash(db, [by |-> "height", hash |-> "",
                                      height |-> BlockTable[h].height])) = ""

\* C29 as stated: after any sequence of save, connect, disconnect and reset
\* the tip record R is the hash stored under H/ at the height of the tip,
\* and every n/x that is present names the main-chain entry whose parent is x.
C29_AsStated ==
  cop = Idle =>
    /\ Has(db, KR)
    /\ Has(db, KH(BlockTable[Tip(db)].height))
    /\ db[KH(BlockTable[Tip(db)].height)] = Tip(db)
    /\ \A h \in BlockHashes \cup {NULL_HASH} :
         Has(db, Kn(h)) =>
           /\ BlockTable[db[Kn(h)]].prevBlock = h
           /\ IsMainChain(db, BlockTable[db[Kn(h)]])

HeaderKeys == {"R", "e", "h", "H", "n"}

Changed(d, e) ==
  {k \in DOMAIN d \cup DOMAIN e : ~(k \in DOMAIN d /\ k \in DOMAIN e /\ d[k] = e[k])}

\* C26: in SPV mode no step of save, connect, disconnect or reset changes a
\* key outside R, e/, h/, H/ and n/, no batch holds an operation on another
\* key, and the store holds no key under b/, u/, c/, t/, T/ or C/.
C26_SpvFrame ==
  /\ [][opts.spv => \A k \in Changed(db, db') : k.p \in HeaderKeys]_vars
  /\ [](opts.spv =>
          /\ \A i \in 1..Len(batch) : batch[i].key.p \in HeaderKeys
          /\ \A k \in DOMAIN db : k.p \in HeaderKeys)

\* in SPV mode a reset has taken B3 and B2 off a chain that was built with
\* saves, after a competing block was stored
C26_Witness ==
  /\ opts.spv /\ opts.prune /\ opts.indexTX /\ opts.indexAddress
  /\ cop = Idle /\ hist.result = "ok" /\ hist.last.kind = "reset"
  /\ Tip(db) = "B1"
  /\ ~Has(db, Ke("B3")) /\ ~Has(db, Ke("B2")) /\ Has(db, Ke("B2x"))

\* the store writes the batch of a block that is being connected
ConnectWrite ==
  /\ cop.step = "write" /\ cop.connect /\ cop.kind \in {"save", "connect"}
  /\ cop' = Idle /\ hist'.result = "ok"

QueueOf(d) == Restrict(d, {"b/q"})

\* C25: with pruning on and not in SPV mode, the batch that connects a block
\* at height h above pruneAfterHeight writes b/q/(h + keepBlocks) = its hash
\* and, when b/q/h names a block g, deletes b/q/h, b/g and u/g with it; a
\* block at or below pruneAfterHeight leaves the queue alone, and no queue
\* entry ever names such a block.
C25_Prune ==
  /\ [][ConnectWrite /\ ~opts.spv /\ opts.prune =>
         LET block == BlockTable[cop.hash]
             h == block.height
         IN IF h > opts.pruneAfterHeight
              THEN /\ Has(db', Kq(h + KeepBlocks))
                   /\ db'[Kq(h + KeepBlocks)] = block.hash
                   /\ Has(db, Kq(h)) =>
                        /\ ~Has(db', Kq(h))
                        /\ ~Has(db', Kb(db[Kq(h)]))
                        /\ ~Has(db', Ku(db[Kq(h)]))
              ELSE QueueOf(db') = QueueOf(db)]_vars
  /\ [](\A k \in DOMAIN QueueOf(db) :
          BlockTable[db[k]].height > opts.pruneAfterHeight)

\* B3 was connected above pruneAfterHeight = 1: it is queued for height
\* 3 + keepBlocks, and B2, which was queued for height 3, is gone with its
\* undo record, while B1 was never queued
C25_Witness ==
  /\ ConnectDone
  /\ hist.last.hash = "B3"
  /\ opts.pruneAfterHeight = 1
  /\ Has(db, Kq(3 + KeepBlocks)) /\ db[Kq(3 + KeepBlocks)] = "B3"
  /\ Has(hist.start, Kq(3)) /\ hist.start[Kq(3)] = "B2"
  /\ Has(hist.start, Ku("B2")) /\ ~Has(db, Ku("B2")) /\ ~Has(db, Kb("B2"))
  /\ ~Has(db, Kq(3))

(***************************************************************************)
(* The peer pool.                                                          *)
(***************************************************************************)
Hosts == {"h1", "h2"}
SeedHosts == {"h2"}
Scores == {50, 100}
Hashes == {"bx", "ty"}
TypeOf(hash) == IF hash = "ty" THEN "tx" ELSE "block"

BAN_SCORE == 100
BAN_TIME == 86400
RetryDelay == 5
RequestTimeout == 1200
InvTimeout == 60

\* the items the node broadcasts
BroadcastHashes == {"ty"}

EmptyMap == [k \in {} |-> 0]
RemoveKey(f, k) == [x \in DOMAIN f \ {k} |-> f[x]]
Remove(sq, x) == SelectSeq(sq, LAMBDA y : y # x)
InSeq(sq, x) == \E i \in 1..Len(sq) : sq[i] = x

\* utils.binaryInsert with compare(a, b) = a.id - b.id
binaryInsert(sq, x) ==
  SelectSeq(sq, LAMBDA y : y < x) \o <<x>> \o SelectSeq(sq, LAMBDA y : y >= x)

\* finished: the requests whose callbacks the handler invoked, with the error
\* score: the score of the VerifyError the handler ended with; from: who
\* made the error; reject: a reject packet was sent; calls: the scores
\* given to setMisbehavior; prefix, enq: the headers processed so far and the
\* hashes of those a block request is queued for
EvNone ==
  [op |-> "other", pending |-> FALSE, result |-> "", finished |-> {},
   score |-> 0, from |-> "", reject |-> FALSE, calls |-> <<>>,
   prefix |-> <<>>, enq |-> {}, emits |-> <<>>, called |-> {}, reset |-> {}]

\* the callback scheduleRequests has handed to chain.onDrain: none, waiting
\* for the chain to drain, or waiting for the next tick
NoSend == [stage |-> "none", peer |-> 0]

\* the state of the pool as one record
PoolState ==
  [pool |-> pool, peers |-> peers, peerObj |-> peerObj, request |-> request,
   reqObj |-> reqObj, seeds |-> seeds, sched |-> sched, ev |-> ev]

\* the requests that something still refers to: the request map, a queue
\* of a peer, a timer or a close listener
Referenced(T) ==
  {rid \in DOMAIN T.reqObj :
     \/ \E h \in DOMAIN T.request.map : T.request.map[h] = rid
     \/ T.reqObj[rid].timeout # 0
     \/ T.reqObj[rid].listening
     \/ \E id \in DOMAIN T.peerObj :
          InSeq(T.peerObj[id].qtx, rid) \/ InSeq(T.peerObj[id].qblock, rid)}

\* the peers that are connected or that a request or a callback refers to
ReferencedPeers(T) ==
  {id \in DOMAIN T.peerObj :
     \/ ~T.peerObj[id].closed
     \/ T.peerObj[id].flush
     \/ \E rid \in Referenced(T) : T.reqObj[rid].peer = id
     \/ \E c \in T.sched.checks : c.peer = id
     \/ T.sched.send.peer = id
     \/ \E i \in DOMAIN T.pool.hdr : T.pool.hdr[i].peer = id}

\* the end of a handler: objects nothing refers to any more are gone
Commit(T) ==
  /\ T.pool.pid <= MaxPeers
  /\ pool' = T.pool
  /\ peers' = T.peers
  /\ peerObj' = [id \in ReferencedPeers(T) |-> T.peerObj[id]]
  /\ request' = T.request
  /\ reqObj' = [rid \in Referenced(T) |-> T.reqObj[rid]]
  /\ seeds' = T.seeds
  /\ sched' = T.sched
  /\ ev' = T.ev
  /\ UNCHANGED otherThanPool

Event(S, op) == [S EXCEPT !.ev = [EvNone EXCEPT !.op = op]]

\* the ban entry of the host has not expired
Banned(S, host) ==
  /\ host \in DOMAIN S.peers.misbehaving
  /\ ~(S.sched.now > S.peers.misbehaving[host] + BAN_TIME)

\* the side effect of isMisbehaving on the hosts it is asked about: an
\* expired entry is deleted and the ban score of the host's peer is reset
Expire_All(S, hs) ==
  LET expired == {h \in hs : /\ h \in DOMAIN S.peers.misbehaving
                             /\ S.sched.now > S.peers.misbehaving[h] + BAN_TIME}
      reset == {S.peers.map[h] : h \in hs \cap DOMAIN S.peers.map}
  IN [S EXCEPT
       !.peers.misbehaving = [h \in DOMAIN @ \ expired |-> @[h]],
       !.ev.reset = @ \cup {id \in reset : S.peerObj[id].banScore > 0},
       !.peerObj = [id \in DOMAIN @ |->
                      IF id \in reset THEN [@[id] EXCEPT !.banScore = 0] ELSE @[id]]]

Expire(S, hs) ==
  LET expired == {h \in hs : /\ h \in DOMAIN S.peers.misbehaving
                             /\ S.sched.now > S.peers.misbehaving[h] + BAN_TIME}
      reset == {S.peers.map[h] : h \in expired \cap DOMAIN S.peers.map}
  IN [S EXCEPT
       !.peers.misbehaving = [h \in DOMAIN @ \ expired |-> @[h]],
       !.ev.reset = @ \cup {id \in reset : S.peerObj[id].banScore > 0},
       !.peerObj = [id \in DOMAIN @ |->
                      IF id \in reset THEN [@[id] EXCEPT !.banScore = 0] ELSE @[id]]]

isMisbehaving(S, host) == [S |-> Expire(S, {host}), r |-> Banned(S, host)]

\* _getRandom: a seed that is not banned (and has no peer when uniq), found
\* by random probing; <<>> when every seed was tried
getRandom(S, sq, uniq) ==
  LET ok(i) == ~Banned(S, sq[i]) /\ (uniq => sq[i] \notin DOMAIN S.peers.map)
      good == {i \in 1..Len(sq) : ok(i)}
      bad == {i \in 1..Len(sq) : ~ok(i)}
  IN IF good = {}
       THEN {[S |-> Expire(S, {sq[i] : i \in bad}), r |-> <<>>]}
       ELSE {[S |-> Expire(S, {sq[i] : i \in V \cup {g}}), r |-> <<sq[g]>>] :
               g \in good, V \in SUBSET bad}

Pick(S, sq) ==
  IF Len(sq) = 0 THEN {[S |-> S, r |-> <<>>]}
  ELSE {[S |-> S, r |-> <<sq[i]>>] : i \in 1..Len(sq)}

\* getSeed(priority)
getSeed(S, priority) ==
  IF priority
    THEN IF ~S.pool.connected
           THEN {[S |-> S, r |-> IF Len(S.seeds.originalSeeds) > 0
                                   THEN <<S.seeds.originalSeeds[1]>> ELSE <<>>]}
           ELSE UNION {
                  IF a.r # <<>> THEN {a}
                  ELSE UNION {
                         IF b.r # <<>> THEN {b}
                         ELSE IF Len(b.S.seeds.seeds) > 0
                                THEN Pick(b.S, b.S.seeds.seeds)
                                ELSE Pick(b.S, b.S.seeds.originalSeeds)
                         : b \in getRandom(a.S, a.S.seeds.seeds, FALSE)}
                  : a \in getRandom(S, S.seeds.originalSeeds, FALSE)}
    ELSE IF S.peers.load = 0
           THEN {[S |-> S, r |-> <<>>]}
           ELSE UNION {
                  IF a.r # <<>> THEN {a}
                  ELSE getRandom(a.S, a.S.seeds.seeds, TRUE)
                  : a \in getRandom(S, S.seeds.originalSeeds, TRUE)}

\* orphans counts the blocks with an unknown parent the peer delivered; the
\* pool keeps no such count, it is kept here for the properties
NewPeer(host, kind) ==
  [host |-> host, kind |-> kind, banScore |-> 0, closed |-> FALSE,
   qblock |-> <<>>, qtx |-> <<>>, flush |-> FALSE, orphans |-> 0,
   invFilter |-> {}]

\* _createPeer, and the registration every caller does: peers.all.push and
\* peers.map[peer.host] = peer
createPeer(S, host, kind) ==
  LET id == S.pool.pid + 1
  IN [S EXCEPT
       !.pool.pid = id,
       !.peerObj = (id :> NewPeer(host, kind)) @@ @,
       !.peers.all = Append(@, id),
       !.peers.map = (host :> id) @@ @]

\* LoadRequest.finish(err): the request leaves the map, the queue of its
\* peer, the close listeners and its timer, and its callbacks get err
finish(S, rid, err) ==
  LET r == S.reqObj[rid]
      inMap == r.hash \in DOMAIN S.request.map
      dec == IF inMap /\ r.active THEN 1 ELSE 0
  IN [S EXCEPT
       !.request.map = IF inMap THEN RemoveKey(@, r.hash) ELSE @,
       !.request.active = @ - dec,
       !.request.activeTX = IF r.type = "tx" THEN @ - dec ELSE @,
       !.request.activeBlocks = IF r.type = "tx" THEN @ ELSE @ - dec,
       !.reqObj[rid] = [@ EXCEPT !.active = IF inMap THEN FALSE ELSE @,
                                 !.timeout = 0, !.listening = FALSE],
       !.ev.finished = @ \cup {[rid |-> rid, err |-> err]},
       !.peerObj[r.peer] = [@ EXCEPT
                              !.qtx = IF r.type = "tx" THEN Remove(@, rid) ELSE @,
                              !.qblock = IF r.type = "tx" THEN @ ELSE Remove(@, rid)]]

RECURSIVE FinishAll(_, _, _)
FinishAll(S, rids, err) ==
  IF rids = {} THEN S
  ELSE LET rid == CHOOSE x \in rids : \A y \in rids : x <= y
       IN FinishAll(finish(S, rid, err), rids \ {rid}, err)

\* LoadRequest.start
start(S, rid) ==
  [S EXCEPT
    !.reqObj[rid] = [@ EXCEPT !.active = TRUE, !.listening = TRUE,
                              !.timeout = S.sched.now + RequestTimeout],
    !.request.active = @ + 1,
    !.request.activeTX = IF S.reqObj[rid].type = "tx" THEN @ + 1 ELSE @,
    !.request.activeBlocks = IF S.reqObj[rid].type = "tx" THEN @ ELSE @ + 1]

RECURSIVE StartAll(_, _)
StartAll(S, q) ==
  IF q = <<>> THEN S ELSE StartAll(start(S, Head(q)), Tail(q))

removePeer_KeepLoad(S, id) ==
  LET T == [S EXCEPT
              !.peers.pending = Remove(@, id),
              !.peers.regular = Remove(@, id),
              !.peers.leeches = Remove(@, id),
              !.peers.all = Remove(@, id),
              !.peers.map = RemoveKey(@, S.peerObj[id].host)]
      mine == {S.request.map[h] : h \in {x \in DOMAIN S.request.map :
                                          S.reqObj[S.request.map[x]].peer = id}}
  IN IF S.peers.load = id
       THEN FinishAll(T, mine, "Peer closed.")
       ELSE T

\* _removePeer
removePeer(S, id) ==
  LET T == [S EXCEPT
              !.peers.pending = Remove(@, id),
              !.peers.regular = Remove(@, id),
              !.peers.leeches = Remove(@, id),
              !.peers.all = Remove(@, id),
              !.peers.map = RemoveKey(@, S.peerObj[id].host)]
      mine == {S.request.map[h] : h \in {x \in DOMAIN S.request.map :
                                          S.reqObj[S.request.map[x]].peer = id}}
  IN IF S.peers.load = id
       THEN [FinishAll(T, mine, "Peer closed.") EXCEPT !.peers.load = 0]
       ELSE T

Timer(S, kind) ==
  [S EXCEPT !.sched.timers = Append(@, [kind |-> kind, due |-> S.sched.now + RetryDelay])]

\* _addLoader
addLoader(S) ==
  IF S.pool.destroyed \/ S.peers.load # 0 THEN {S}
  ELSE {IF g.r = <<>> THEN g.S
        ELSE [createPeer(g.S, g.r[1], "loader") EXCEPT !.peers.load = g.S.pool.pid + 1]
        : g \in getSeed(S, TRUE)}

\* _addPeer
addPeer(S) ==
  IF S.pool.destroyed THEN {S}
  ELSE IF Len(S.peers.regular) + Len(S.peers.pending) >= Size - 1 THEN {S}
  ELSE {IF g.r = <<>> THEN Timer(g.S, "addPeer")
        ELSE [createPeer(g.S, g.r[1], "peer") EXCEPT
                !.peers.pending = Append(@, g.S.pool.pid + 1)]
        : g \in getSeed(S, FALSE)}

RECURSIVE AddPeers(_, _)
AddPeers(SS, n) ==
  IF n = 0 THEN SS ELSE AddPeers(UNION {addPeer(T) : T \in SS}, n - 1)

closePeer_NoListeners(S, id) ==
  LET S0 == [S EXCEPT !.peerObj[id].closed = TRUE]
      T == removePeer(S0, id)
      handled ==
        CASE S.peerObj[id].kind = "loader" ->
               IF Len(T.peers.regular) = 0 THEN {Timer(T, "addLoader")} ELSE addLoader(T)
          [] S.peerObj[id].kind = "peer" ->
               IF T.pool.destroyed THEN {T} ELSE addPeer(T)
          [] OTHER -> {T}
  IN handled

\* the peer emits 'close': the handler the pool registered when it created
\* the peer, then the close listeners of the started requests
closePeer(S, id) ==
  LET S0 == [S EXCEPT !.peerObj[id].closed = TRUE]
      listeners == {rid \in DOMAIN S.reqObj :
                      S.reqObj[rid].peer = id /\ S.reqObj[rid].listening}
      T == removePeer(S0, id)
      handled ==
        CASE S.peerObj[id].kind = "loader" ->
               IF Len(T.peers.regular) = 0 THEN {Timer(T, "addLoader")} ELSE addLoader(T)
          [] S.peerObj[id].kind = "peer" ->
               IF T.pool.destroyed THEN {T} ELSE addPeer(T)
          [] OTHER -> {T}
  IN {FinishAll(U, listeners, "Destroyed.") : U \in handled}

setMisbehavior_NoThreshold(S, id, score) ==
  LET S1 == [S EXCEPT !.peerObj[id].banScore = @ + score]
  IN IF S1.peerObj[id].banScore > BAN_SCORE
       THEN closePeer([S1 EXCEPT !.peers.misbehaving =
                         (S.peerObj[id].host :> S.sched.now) @@ @], id)
       ELSE {S1}

\* setMisbehavior(peer, score)
setMisbehavior(S, id, score) ==
  LET S1 == [S EXCEPT !.peerObj[id].banScore = @ + score]
  IN IF S1.peerObj[id].banScore >= BAN_SCORE
       THEN closePeer([S1 EXCEPT !.peers.misbehaving =
                         (S.peerObj[id].host :> S.sched.now) @@ @], id)
       ELSE {S1}

Live(id) == id \in DOMAIN peerObj /\ ~peerObj[id].closed

\* the pool after construction, with options.headers = headers
PoolInit(headers) ==
  /\ pool = [connected |-> FALSE, destroyed |-> FALSE, crashed |-> FALSE,
             uid |-> 0, pid |-> 0, inv |-> [items |-> <<>>, map |-> EmptyMap],
             headers |-> headers, rejects |-> {}, hdr |-> <<>>,
             scheduled |-> FALSE]
  /\ peers = [load |-> 0, regular |-> <<>>, pending |-> <<>>, leeches |-> <<>>,
              all |-> <<>>, map |-> EmptyMap, misbehaving |-> EmptyMap]
  /\ peerObj = EmptyMap
  /\ request = [map |-> EmptyMap, active |-> 0, activeBlocks |-> 0, activeTX |-> 0]
  /\ reqObj = EmptyMap
  /\ seeds \in {[seeds |-> <<>>, originalSeeds |-> o] : o \in {<<"h1">>, <<"h1", "h2">>}}
  /\ sched = [now |-> 1, ticks |-> 0, timers |-> <<>>, checks |-> {},
              busy |-> FALSE, send |-> NoSend]
  /\ ev = EvNone

InitPool == PoolInit(FALSE)

\* connect()
PoolConnect ==
  /\ ~pool.crashed /\ ~pool.connected /\ ~pool.destroyed
  /\ LET S == Event(PoolState, "other")
     IN IF Len(seeds.originalSeeds) > 0
          THEN \E T \in AddPeers(addLoader(S), Size - 1) :
                 Commit([T EXCEPT !.pool.connected = TRUE])
          ELSE Commit(S)

\* the server's 'connection' handler and _addLeech
Inbound(host) ==
  /\ ~pool.crashed
  /\ LET S == Event(PoolState, "other")
         m == isMisbehaving(S, host)
     IN IF Len(peers.leeches) >= MaxLeeches THEN Commit(S)
        ELSE IF m.r THEN Commit(m.S)
        ELSE IF pool.destroyed THEN Commit(m.S)
        ELSE Commit([createPeer(m.S, host, "leech") EXCEPT
                       !.peers.leeches = Append(@, m.S.pool.pid + 1)])

\* the 'ack' handler of a peer added by _addPeer
PeerAck(id) ==
  /\ ~pool.crashed
  /\ Live(id) /\ peerObj[id].kind = "peer" /\ InSeq(peers.pending, id)
  /\ LET S == Event(PoolState, "other")
     IN IF pool.destroyed THEN Commit(S)
        ELSE Commit([S EXCEPT !.peers.pending = Remove(@, id),
                              !.peers.regular = binaryInsert(@, id)])

\* the socket of a peer closes
PeerClose(id) ==
  /\ ~pool.crashed
  /\ Live(id)
  /\ \E T \in closePeer(Event(PoolState, "other"), id) : Commit(T)

\* a handler of the pool reports misbehaviour of a peer
SetMisbehavior(id, score) ==
  /\ ~pool.crashed
  /\ Live(id)
  /\ \E T \in setMisbehavior(Event(PoolState, "other"), id, score) : Commit(T)

\* a retry timer set by _addLoader's close handler or by _addPeer fires
TimerFires(i) ==
  /\ ~pool.crashed
  /\ i \in 1..Len(sched.timers)
  /\ sched.timers[i].due <= sched.now
  /\ LET S == [Event(PoolState, "other") EXCEPT
                 !.sched.timers = SubSeq(@, 1, i - 1) \o SubSeq(@, i + 1, Len(@))]
     IN \E T \in (IF sched.timers[i].kind = "addLoader" THEN addLoader(S) ELSE addPeer(S)) :
          Commit(T)

\* addSeed: an address learned from a peer
AddSeed(host) ==
  /\ ~pool.crashed
  /\ ~InSeq(seeds.seeds, host)
  /\ Commit([Event(PoolState, "other") EXCEPT !.seeds.seeds = Append(@, host)])

Dues ==
  {sched.timers[i].due : i \in 1..Len(sched.timers)}
    \cup {reqObj[r].timeout : r \in {x \in DOMAIN reqObj : reqObj[x].timeout # 0}}
    \cup {pool.inv.map[h].timeout : h \in DOMAIN pool.inv.map}

Min(ns) == CHOOSE n \in ns : \A m \in ns : n <= m

\* time passes, up to the time the next timer is due
Tick(d) ==
  /\ ~pool.crashed
  /\ sched.ticks < MaxTicks
  /\ \A due \in Dues : due > sched.now
  /\ d = RetryDelay => Dues # {}
  /\ Commit([Event(PoolState, "other") EXCEPT
               !.sched.now = Min({@ + d} \cup Dues), !.sched.ticks = @ + 1])

\* has(type, hash): the check that runs when the chain or the mempool has
\* answered; exists is their answer, rejected the answer of the rejects filter
has_NoPending(S, hash, exists, rejected) == exists \/ rejected

has(S, hash, exists, rejected) ==
  exists \/ hash \in DOMAIN S.request.map \/ rejected

\* new LoadRequest(pool, peer, type, hash)
LoadRequest(S, id, hash) ==
  LET rid == S.pool.uid + 1
  IN [S EXCEPT
       !.pool.uid = rid,
       !.reqObj = (rid :> [hash |-> hash, peer |-> id, type |-> TypeOf(hash),
                           active |-> FALSE, listening |-> FALSE, timeout |-> 0]) @@ @,
       !.request.map = (hash :> rid) @@ @]

\* getData(peer, type, hash): the call; the answer of has() comes later
GetData(id, hash) ==
  /\ ~pool.crashed
  /\ Live(id)
  /\ Cardinality(sched.checks) < MaxChecks
  /\ LET S == Event(PoolState, "other")
     IN IF pool.destroyed THEN Commit(S)
        ELSE Commit([S EXCEPT !.sched.checks = @ \cup {[peer |-> id, hash |-> hash]}])

\* getData: the callback of has()
GetDataCheck(c, exists, rejected) ==
  /\ ~pool.crashed
  /\ c \in sched.checks
  /\ LET S == [Event(PoolState, "has") EXCEPT
                 !.ev.pending = c.hash \in DOMAIN request.map,
                 !.sched.checks = @ \ {c}]
         rid == pool.uid + 1
     IN IF has(S, c.hash, exists, rejected)
          THEN Commit([S EXCEPT !.ev.result = "exists"])
        ELSE IF c.hash \in DOMAIN request.map
          THEN Commit([S EXCEPT !.ev.result = "throw", !.pool.crashed = TRUE])
        ELSE /\ pool.uid < MaxRequests
             /\ LET T == [LoadRequest(S, c.peer, c.hash) EXCEPT !.ev.result = "created"]
                IN IF TypeOf(c.hash) = "tx"
                     THEN Commit([start(T, rid) EXCEPT
                            !.peerObj[c.peer] = [@ EXCEPT !.flush = @ \/ Len(T.peerObj[c.peer].qtx) = 0,
                                                          !.qtx = Append(@, rid)]])
                     ELSE Commit([T EXCEPT !.peerObj[c.peer].qblock = Append(@, rid)])

\* the nextTick of getData: the queued transaction requests are sent
TxFlush(id) ==
  /\ ~pool.crashed
  /\ id \in DOMAIN peerObj /\ peerObj[id].flush
  /\ Commit([Event(PoolState, "other") EXCEPT
               !.peerObj[id] = [@ EXCEPT !.flush = FALSE, !.qtx = <<>>]])

\* scheduleRequests and _sendRequests: the queued block requests are started
SendRequests(id) ==
  /\ ~pool.crashed
  /\ Live(id)
  /\ Len(peerObj[id].qblock) > 0
  /\ Commit([StartAll(Event(PoolState, "other"), peerObj[id].qblock) EXCEPT
               !.peerObj[id].qblock = <<>>])

\* fulfill(hash): the block or the transaction arrived
Fulfill(hash) ==
  /\ ~pool.crashed
  /\ hash \in DOMAIN request.map
  /\ Commit(finish(Event(PoolState, "other"), request.map[hash], ""))

\* the 'notfound' handler of a peer, for one item
NotFound(id, hash) ==
  /\ ~pool.crashed
  /\ Live(id)
  /\ LET S == Event(PoolState, "other")
     IN IF hash \in DOMAIN request.map /\ reqObj[request.map[hash]].peer = id
          THEN Commit(finish(S, request.map[hash], "Not found."))
          ELSE Commit(S)

\* the timer of a started request fires
RequestTimesOut(rid) ==
  /\ ~pool.crashed
  /\ rid \in DOMAIN reqObj
  /\ reqObj[rid].timeout # 0 /\ reqObj[rid].timeout <= sched.now
  /\ Commit(finish(Event(PoolState, "other"), rid, "Destroyed."))

callAll_KeepList(S, hash, err) ==
  [S EXCEPT !.ev.called = @ \cup {[id |-> S.pool.inv.map[hash].id,
                                   n |-> S.pool.inv.map[hash].cbs, err |-> err]}]

\* the callbacks of an item are called with err and the list is emptied
callAll(S, hash, err) ==
  [S EXCEPT !.pool.inv.map[hash].cbs = 0,
            !.ev.called = @ \cup {[id |-> S.pool.inv.map[hash].id,
                                   n |-> S.pool.inv.map[hash].cbs, err |-> err]}]

finishItem_KeepItems(S, hash, err) ==
  IF hash \notin DOMAIN S.pool.inv.map
    THEN [S EXCEPT !.pool.crashed = TRUE]
    ELSE [callAll(S, hash, err) EXCEPT
           !.pool.inv.map = RemoveKey(@, hash),
           !.ev.finished = @ \cup {[rid |-> S.pool.inv.map[hash].id, err |-> err]}]

\* BroadcastItem.finish(err)
finishItem(S, hash, err) ==
  IF hash \notin DOMAIN S.pool.inv.map
    THEN [S EXCEPT !.pool.crashed = TRUE]
    ELSE [callAll(S, hash, err) EXCEPT
           !.pool.inv.map = RemoveKey(@, hash),
           !.pool.inv.items = Remove(@, S.pool.inv.map[hash].id),
           !.ev.finished = @ \cup {[rid |-> S.pool.inv.map[hash].id, err |-> err]}]

\* the entries of a copy of inv.items, finished one after the other
RECURSIVE FinishItems(_, _)
FinishItems(S, ids) ==
  IF ids = <<>> THEN S
  ELSE LET hash == CHOOSE h \in DOMAIN S.pool.inv.map : S.pool.inv.map[h].id = Head(ids)
       IN FinishItems(finishItem(S, hash, ""), Tail(ids))

\* broadcast(msg, callback): a known item is refreshed, a new one is
\* started; cb tells whether a callback is given
Broadcast(hash, cb) ==
  /\ ~pool.crashed
  /\ LET S == Event(PoolState, "other")
         n == IF cb THEN 1 ELSE 0
     IN IF hash \in DOMAIN pool.inv.map
          THEN /\ pool.inv.map[hash].cbs + n <= MaxCallbacks
               /\ Commit([S EXCEPT !.pool.inv.map[hash].timeout = sched.now + InvTimeout,
                                   !.pool.inv.map[hash].cbs = @ + n])
          ELSE /\ pool.uid < MaxRequests
               /\ Commit([S EXCEPT
                    !.pool.uid = @ + 1,
                    !.pool.inv.map = (hash :> [id |-> pool.uid + 1,
                                               timeout |-> sched.now + InvTimeout,
                                               cbs |-> n]) @@ @,
                    !.pool.inv.items = binaryInsert(@, pool.uid + 1)])

\* the timer of a broadcast item fires
BroadcastTimesOut(hash) ==
  /\ ~pool.crashed
  /\ hash \in DOMAIN pool.inv.map
  /\ pool.inv.map[hash].timeout <= sched.now
  /\ LET S == Event(PoolState, "timeout")
         S1 == [S EXCEPT !.ev.emits = Append(@, [name |-> "timeout",
                                                 id |-> pool.inv.map[hash].id])]
     IN Commit(finishItem(S1, hash, "Timed out."))

\* BroadcastItem.ack(peer): the timer set by ack fires
ItemAck(hash) ==
  /\ ~pool.crashed
  /\ hash \in DOMAIN pool.inv.map
  /\ LET S == Event(PoolState, "ack")
         S1 == [S EXCEPT !.ev.emits = Append(@, [name |-> "ack",
                                                 id |-> pool.inv.map[hash].id])]
     IN Commit(callAll(S1, hash, ""))

\* BroadcastItem.reject(peer)
ItemReject(hash) ==
  /\ ~pool.crashed
  /\ hash \in DOMAIN pool.inv.map
  /\ LET S == Event(PoolState, "reject")
         S1 == [S EXCEPT !.ev.emits = Append(@, [name |-> "reject",
                                                 id |-> pool.inv.map[hash].id])]
     IN Commit(callAll(S1, hash, "Rejected"))

CloseAll_First(SS, ids) ==
  IF ids = <<>> THEN SS
  ELSE UNION {closePeer(T, Head(ids)) : T \in SS}

\* peer.destroy() for every peer of the lists, in order
RECURSIVE CloseAll(_, _)
CloseAll(SS, ids) ==
  IF ids = <<>> THEN SS
  ELSE CloseAll(UNION {IF T.peerObj[Head(ids)].closed THEN {T} ELSE closePeer(T, Head(ids))
                       : T \in SS}, Tail(ids))

\* destroy()
PoolDestroy ==
  /\ ~pool.crashed /\ ~pool.destroyed
  /\ LET S == [Event(PoolState, "destroy") EXCEPT !.pool.destroyed = TRUE]
         S1 == FinishItems(S, pool.inv.items)
         T == FinishAll(S1, {request.map[h] : h \in DOMAIN request.map}, "Pool closed.")
         ids == (IF peers.load # 0 THEN <<peers.load>> ELSE <<>>)
                  \o peers.regular \o peers.pending \o peers.leeches
     IN \E U \in CloseAll({T}, ids) : Commit(U)

(***************************************************************************)
(* What the pool does with the blocks, transactions and headers that its   *)
(* peers send.  The answers of chain.add and mempool.addTX are inputs.     *)
(***************************************************************************)
VerifyScores == {0 - 1, 0, 100}
Reasons == {"bad-prevblk", "invalid"}
Outcomes ==
  {[type |-> "ok", reason |-> "", score |-> 0],
   [type |-> "Error", reason |-> "", score |-> 0]}
    \cup {[type |-> "VerifyError", reason |-> r, score |-> s] :
            r \in Reasons, s \in VerifyScores}

\* peer.setMisbehavior(score): the pool's setMisbehavior for this peer;
\* destroying a peer that is destroyed already does nothing
peerSetMisbehavior(S, id, score) ==
  LET S0 == [S EXCEPT !.ev.calls = Append(@, score)]
      S1 == [S0 EXCEPT !.peerObj[id].banScore = @ + score]
  IN IF ~S.peerObj[id].closed THEN setMisbehavior(S0, id, score)
     ELSE IF S1.peerObj[id].banScore >= BAN_SCORE
       THEN {[S1 EXCEPT !.peers.misbehaving =
                (S.peerObj[id].host :> S.sched.now) @@ @]}
       ELSE {S1}

reject_NoScore(S, id, hash, score) ==
  {[S EXCEPT !.ev.reject = TRUE, !.pool.rejects = @ \cup {hash}]}

\* peer.sendReject(obj, code, reason, score), which is pool.reject
reject(S, id, hash, score) ==
  peerSetMisbehavior([S EXCEPT !.ev.reject = TRUE, !.pool.rejects = @ \cup {hash}],
                     id, score)

fulfill_Always(S, hash) ==
  IF hash \in DOMAIN S.request.map
    THEN [S |-> finish(S, S.request.map[hash], ""), r |-> TRUE]
    ELSE [S |-> S, r |-> TRUE]

\* fulfill(hash)
fulfill(S, hash) ==
  IF hash \in DOMAIN S.request.map
    THEN [S |-> finish(S, S.request.map[hash], ""), r |-> TRUE]
    ELSE [S |-> S, r |-> FALSE]

\* scheduleRequests(peer): one round at a time for the whole pool; onDrain
\* calls back at once when the chain is idle, and the callback waits for
\* the next tick
scheduleRequests(S, id) ==
  IF S.pool.scheduled THEN S
  ELSE [S EXCEPT !.pool.scheduled = TRUE,
                 !.sched.send = [stage |-> IF S.sched.busy THEN "drain" ELSE "tick",
                                 peer |-> id]]

sendRequests_Busy(S, id) ==
  IF Len(S.peerObj[id].qblock) = 0 THEN S
  ELSE [StartAll(S, S.peerObj[id].qblock) EXCEPT !.peerObj[id].qblock = <<>>]

\* _sendRequests(peer): at the heights of the model a round takes the whole
\* queue of the peer
sendRequests(S, id) ==
  IF S.sched.busy THEN S
  ELSE IF Len(S.peerObj[id].qblock) = 0 THEN S
  ELSE [StartAll(S, S.peerObj[id].qblock) EXCEPT !.peerObj[id].qblock = <<>>]

Failed(T, from, score) ==
  [T EXCEPT !.ev.result = "VerifyError", !.ev.from = from, !.ev.score = score]

Orphaned(T, id) ==
  IF id \in DOMAIN T.peerObj /\ T.peerObj[id].orphans <= MaxOrphans
    THEN [T EXCEPT !.peerObj[id].orphans = @ + 1]
    ELSE T

\* _handleBlock(block, peer); out is the answer of chain.add
HandleBlock(id, hash, out) ==
  /\ ~pool.crashed
  /\ Live(id)
  /\ TypeOf(hash) = "block"
  /\ LET f == fulfill(Event(PoolState, "block"), hash)
         rejected == IF out.score # 0 - 1
                       THEN reject(f.S, id, hash, out.score) ELSE {f.S}
     IN IF ~f.r THEN Commit([f.S EXCEPT !.ev.result = "unrequested",
                                        !.peerObj[id].invFilter = @ \cup {hash}])
        ELSE IF out.type # "VerifyError"
          THEN Commit(scheduleRequests([f.S EXCEPT !.ev.result = out.type], id))
        ELSE IF out.reason = "bad-prevblk"
          THEN IF pool.headers
                 THEN \E T \in UNION {peerSetMisbehavior(U, id, 10) : U \in rejected} :
                        Commit(Orphaned(Failed(T, "chain", out.score), id))
                 ELSE \E T \in rejected :
                        Commit(scheduleRequests(
                                 Orphaned(Failed(T, "chain", out.score), id), id))
        ELSE \E T \in rejected :
               Commit(scheduleRequests(
                        Failed([T EXCEPT !.pool.rejects = @ \cup {hash}],
                               "chain", out.score), id))

\* _handleTX(tx, peer); unconfirmed is tx.ts === 0, out the answer of
\* mempool.addTX
HandleTX(id, hash, unconfirmed, out) ==
  /\ ~pool.crashed
  /\ Live(id)
  /\ TypeOf(hash) = "tx"
  /\ LET f == fulfill(Event(PoolState, "tx"), hash)
     IN IF ~f.r /\ unconfirmed /\ hash \in pool.rejects
          THEN Commit(Failed(f.S, "pool", 0))
        ELSE IF unconfirmed /\ out.type = "VerifyError"
          THEN \E T \in (IF out.score # 0 - 1
                           THEN reject(f.S, id, hash, out.score) ELSE {f.S}) :
                 Commit(Failed([T EXCEPT !.pool.rejects = @ \cup {hash}],
                               "mempool", out.score))
        ELSE Commit([f.S EXCEPT !.ev.result = "ok"])

\* the headers peers send: bg is in the chain already, bx builds on it, by
\* on bx; bu builds on a block nobody knows; bi fails header.verify
HeaderTable ==
  [bg |-> [hash |-> "bg", prevBlock |-> "b0", valid |-> TRUE],
   bx |-> [hash |-> "bx", prevBlock |-> "bg", valid |-> TRUE],
   by |-> [hash |-> "by", prevBlock |-> "bx", valid |-> TRUE],
   bu |-> [hash |-> "bu", prevBlock |-> "zz", valid |-> TRUE],
   bi |-> [hash |-> "bi", prevBlock |-> "bx", valid |-> FALSE]]
KnownBlocks == {"b0", "bg"}

\* the headers messages: up to MaxHeaders headers, and longer ones
HeaderMsgs ==
  {m \in UNION {[1..n -> DOMAIN HeaderTable] : n \in 1..(MaxHeaders + 1)} :
     \A i, j \in DOMAIN m : i # j => m[i] # m[j]}

\* getData(peer, block type, hash) with the answer of chain.has at hand;
\* reset: the tip has changed since the rejects filter was last used
getDataBlock(S, id, hash, reset) ==
  LET S1 == IF hash \notin KnownBlocks /\ hash \notin DOMAIN S.request.map /\ reset
              THEN [S EXCEPT !.pool.rejects = {}] ELSE S
  IN IF S.pool.destroyed THEN S
     ELSE IF has(S1, hash, hash \in KnownBlocks, hash \in S1.pool.rejects) THEN S1
     ELSE [LoadRequest(S1, id, hash) EXCEPT
             !.peerObj[id].qblock = Append(@, S1.pool.uid + 1)]

\* the 'headers' handler of a peer: _handleHeaders up to its first header
Headers(id, m) ==
  /\ ~pool.crashed
  /\ Live(id)
  /\ pool.headers
  /\ pool.hdr = <<>>
  /\ LET S == Event(PoolState, "headers")
     IN IF Len(m) > MaxHeaders
          THEN \E T \in peerSetMisbehavior(S, id, 100) : Commit(T)
        ELSE Commit([S EXCEPT !.pool.hdr =
                       <<[peer |-> id, rest |-> m, last |-> "",
                          prefix |-> <<>>, enq |-> {}]>>])

\* _handleHeaders: the next header of the message
HeadersStep(reset) ==
  /\ ~pool.crashed
  /\ pool.hdr # <<>>
  /\ LET h == pool.hdr[1]
         header == HeaderTable[Head(h.rest)]
         prefix == Append(h.prefix, header.hash)
         S == [Event(PoolState, "headers") EXCEPT !.ev.prefix = prefix, !.ev.enq = h.enq]
         stop(T) == [T EXCEPT !.pool.hdr = <<>>]
         G == getDataBlock(S, h.peer, header.hash, reset)
         enq == IF header.hash \in DOMAIN G.request.map
                  THEN h.enq \cup {header.hash} ELSE h.enq
     IN IF h.last # "" /\ header.prevBlock # h.last
          THEN \E T \in reject(S, h.peer, header.hash, 100) : Commit(stop(T))
        ELSE IF ~header.valid
          THEN \E T \in reject(S, h.peer, header.hash, 100) :
                 Commit(Failed(stop(T), "header", 100))
        ELSE /\ G.pool.uid <= MaxRequests
             /\ Commit([G EXCEPT
                  !.ev.enq = enq,
                  !.pool.hdr = IF Len(h.rest) = 1 THEN <<>>
                               ELSE <<[h EXCEPT !.rest = Tail(@), !.last = header.hash,
                                                !.prefix = prefix, !.enq = enq]>>,
                  !.pool.scheduled = IF Len(h.rest) = 1 THEN TRUE ELSE @,
                  !.sched.send = IF Len(h.rest) = 1
                                   THEN scheduleRequests(G, h.peer).sched.send ELSE @])

\* the hashes the peers announce in the scheduling of requests
SchedHashes == {"bx", "by"}

\* the 'blocks' handler of a peer for an inv of one hash: _handleBlocks,
\* which the peers other than the loader reach through _handleInv; on is
\* pool.syncing for the loader and pool.synced for the others
Blocks(id, hash, reset, on) ==
  /\ ~pool.crashed
  /\ Live(id)
  /\ ~pool.headers
  /\ LET S == Event(PoolState, "blocks")
         G == getDataBlock(S, id, hash, reset)
     IN IF ~on THEN Commit(S)
        ELSE /\ G.pool.uid <= MaxRequests
             /\ Commit(scheduleRequests(G, id))

\* the chain takes up work: chain.isBusy() answers true until it drains
ChainBusy ==
  /\ ~pool.crashed
  /\ ~sched.busy
  /\ Commit([Event(PoolState, "other") EXCEPT !.sched.busy = TRUE])

\* the chain drains: the callback given to onDrain goes to the next tick
ChainDrain ==
  /\ ~pool.crashed
  /\ sched.busy
  /\ Commit([Event(PoolState, "other") EXCEPT
               !.sched.busy = FALSE,
               !.sched.send.stage = IF @ = "drain" THEN "tick" ELSE @])

\* the next tick of scheduleRequests: _sendRequests(peer), then the pool may
\* schedule again
SendRound ==
  /\ ~pool.crashed
  /\ sched.send.stage = "tick"
  /\ Commit([sendRequests(Event(PoolState, "send"), sched.send.peer) EXCEPT
               !.pool.scheduled = FALSE,
               !.sched.send = NoSend])

\* the blocks and transactions the peers send, and the requests they answer
NextRelay ==
  \/ PoolConnect
  \/ \E id \in 1..MaxPeers, hash \in Hashes : GetData(id, hash)
  \/ \E c \in sched.checks, exists \in BOOLEAN, rejected \in BOOLEAN :
       GetDataCheck(c, exists, rejected)
  \/ \E id \in 1..MaxPeers : TxFlush(id)
  \/ \E id \in 1..MaxPeers : SendRequests(id)
  \/ \E id \in 1..MaxPeers, hash \in Hashes, out \in Outcomes :
       HandleBlock(id, hash, out)
  \/ \E id \in 1..MaxPeers, hash \in Hashes, unconfirmed \in BOOLEAN, out \in Outcomes :
       HandleTX(id, hash, unconfirmed, out)

\* the headers the peers send, and the blocks that were asked for
NextHeaders ==
  \/ PoolConnect
  \/ \E id \in 1..MaxPeers, m \in HeaderMsgs : Headers(id, m)
  \/ \E reset \in BOOLEAN : HeadersStep(reset)
  \/ \E id \in 1..MaxPeers : SendRequests(id)
  \/ \E id \in 1..MaxPeers, hash \in DOMAIN request.map, out \in Outcomes :
       hash \in DOMAIN HeaderTable /\ HandleBlock(id, hash, out)

\* the peers of the pool: connections, ban scores, seeds and timers
NextPool ==
  \/ PoolConnect
  \/ \E host \in Hosts : Inbound(host)
  \/ \E id \in 1..MaxPeers : PeerAck(id)
  \/ \E id \in 1..MaxPeers : PeerClose(id)
  \/ \E id \in 1..MaxPeers, score \in Scores : SetMisbehavior(id, score)
  \/ \E i \in 1..MaxPeers : TimerFires(i)
  \/ \E host \in SeedHosts : AddSeed(host)
  \/ \E d \in {RetryDelay, BAN_TIME + 1} : Tick(d)
  \/ PoolDestroy

\* the requests of the pool.  For a request a ban is the close of its peer,
\* so ban scores and learned seeds are left out here, and fewer peers are
\* created.
SyncBound == pool'.pid <= SyncPeers

NextSync ==
  \/ PoolConnect /\ SyncBound
  \/ \E host \in Hosts : Inbound(host) /\ SyncBound
  \/ \E id \in 1..MaxPeers : PeerAck(id)
  \/ \E id \in 1..MaxPeers : PeerClose(id) /\ SyncBound
  \/ \E i \in 1..MaxPeers : TimerFires(i) /\ SyncBound
  \/ Tick(RequestTimeout)
  \/ \E id \in 1..MaxPeers, hash \in Hashes : GetData(id, hash)
  \/ \E c \in sched.checks, exists \in BOOLEAN, rejected \in BOOLEAN :
       GetDataCheck(c, exists, rejected)
  \/ \E id \in 1..MaxPeers : TxFlush(id)
  \/ \E id \in 1..MaxPeers : SendRequests(id)
  \/ \E hash \in Hashes : Fulfill(hash)
  \/ \E id \in 1..MaxPeers, hash \in Hashes : NotFound(id, hash)
  \/ \E rid \in 1..MaxRequests : RequestTimesOut(rid)
  \/ \E hash \in BroadcastHashes : Broadcast(hash, FALSE)
  \/ \E hash \in BroadcastHashes : BroadcastTimesOut(hash)
  \/ PoolDestroy

\* the scheduling of the block requests: peers announce blocks and send
\* them while the chain works and drains.  The chain accepts the blocks or
\* fails without a verification error, so no peer is banned here.
NextSched ==
  \/ PoolConnect /\ SyncBound
  \/ \E host \in SeedHosts : Inbound(host) /\ SyncBound
  \/ \E id \in 1..MaxPeers, hash \in SchedHashes, on \in BOOLEAN :
       Blocks(id, hash, FALSE, on)
  \/ \E id \in 1..MaxPeers, hash \in SchedHashes,
         out \in {o \in Outcomes : o.type # "VerifyError"} :
       HandleBlock(id, hash, out)
  \/ ChainBusy
  \/ ChainDrain
  \/ SendRound
  \/ \E id \in 1..MaxPeers : PeerClose(id) /\ SyncBound
  \/ PoolDestroy

\* the pool broadcasts items while peers come and go
NextBroadcast ==
  \/ PoolConnect
  \/ \E id \in 1..MaxPeers : PeerClose(id)
  \/ \E hash \in BroadcastHashes, cb \in BOOLEAN : Broadcast(hash, cb)
  \/ \E hash \in BroadcastHashes : ItemAck(hash)
  \/ \E hash \in BroadcastHashes : ItemReject(hash)
  \/ Tick(InvTimeout)
  \/ \E hash \in BroadcastHashes : BroadcastTimesOut(hash)
  \/ PoolDestroy

(***************************************************************************)
(* Properties of the pool.                                                 *)
(***************************************************************************)
RequestsOf(hash) == {rid \in DOMAIN reqObj : reqObj[rid].hash = hash}

\* C2: for every hash at most one LoadRequest is unfinished, over all the
\* peers, and a getData for a hash that has a pending request answers that
\* the item exists without creating a request.
C2_OneRequest ==
  /\ \A hash \in Hashes : Cardinality(RequestsOf(hash)) <= 1
  /\ ev.op = "has" /\ ev.pending => ev.result = "exists"

\* two peers asked for the same hash; the second was told the item exists
\* and the request of the first is the only one
C2_Witness ==
  /\ ev.op = "has" /\ ev.pending /\ ev.result = "exists"
  /\ \E hash \in Hashes : Cardinality(RequestsOf(hash)) = 1
  /\ Cardinality(DOMAIN peerObj) >= 2

\* C3: setMisbehavior(p, s) adds s to the ban score of p; when the score
\* reaches BAN_SCORE the host is recorded as misbehaving with the current
\* time and p is destroyed; below it no ban entry is made and p stays.
C3_Misbehavior ==
  [][\A id \in 1..MaxPeers, score \in Scores :
       SetMisbehavior(id, score) =>
         IF peerObj[id].banScore + score >= BAN_SCORE
           THEN /\ peerObj[id].host \in DOMAIN peers'.misbehaving
                /\ peers'.misbehaving[peerObj[id].host] = sched.now
                /\ ~InSeq(peers'.all, id)
                /\ id \in DOMAIN peerObj' => peerObj'[id].closed
           ELSE /\ peers'.misbehaving = peers.misbehaving
                /\ id \in DOMAIN peerObj' /\ ~peerObj'[id].closed
                /\ peerObj'[id].banScore = peerObj[id].banScore + score
                /\ InSeq(peers'.all, id)]_vars

\* a host is banned by the second of two reports, and another peer has a
\* score below the threshold and is still connected
C3_Witness ==
  /\ \E host \in DOMAIN peers.misbehaving : peers.misbehaving[host] = sched.now
  /\ \E id \in DOMAIN peerObj :
       ~peerObj[id].closed /\ peerObj[id].banScore > 0 /\ InSeq(peers.all, id)

\* C4 as stated: while the ban entry of a host is younger than BAN_TIME the
\* pool creates no peer for that host.
C4_AsStated ==
  [][\A id \in DOMAIN peerObj' \ DOMAIN peerObj :
       ~(/\ peerObj'[id].host \in DOMAIN peers.misbehaving
         /\ sched.now <= peers.misbehaving[peerObj'[id].host] + BAN_TIME)]_vars

\* the request is finished by this step with an error: it is in no map, no
\* queue, has no timer and no close listener, and its callbacks got an error
FinishedWithError(rid) ==
  /\ \A h \in DOMAIN request'.map : request'.map[h] # rid
  /\ \A id \in DOMAIN peerObj' :
       ~InSeq(peerObj'[id].qtx, rid) /\ ~InSeq(peerObj'[id].qblock, rid)
  /\ rid \in DOMAIN reqObj' => reqObj'[rid].timeout = 0 /\ ~reqObj'[rid].listening
  /\ \E f \in ev'.finished : f.rid = rid /\ f.err # ""

\* C11: a started LoadRequest is finished with an error by the step in which
\* its peer answers notfound for its hash, by the step in which its peer
\* closes, and by the step in which its timer fires: it leaves request.map
\* and the queue of its peer, its timer is cleared and its callbacks get the
\* error.
C11_FinishOnError ==
  [][\A rid \in DOMAIN reqObj :
       reqObj[rid].listening =>
         /\ NotFound(reqObj[rid].peer, reqObj[rid].hash) => FinishedWithError(rid)
         /\ (/\ Live(reqObj[rid].peer)
             /\ ~(/\ reqObj[rid].peer \in DOMAIN peerObj'
                  /\ ~peerObj'[reqObj[rid].peer].closed)) => FinishedWithError(rid)
         /\ RequestTimesOut(rid) => FinishedWithError(rid)]_vars

\* the timer of a started request has fired while its peer was connected
C11_Witness ==
  /\ sched.now > RequestTimeout
  /\ \E f \in ev.finished :
       /\ f.err = "Destroyed."
       /\ f.rid \notin DOMAIN reqObj
       /\ \E id \in DOMAIN peerObj : ~peerObj[id].closed
  /\ request.map = EmptyMap

\* C12: close() on a pool that is not destroyed leaves inv.map, inv.items
\* and request.map empty, has called the callbacks of every LoadRequest
\* that was outstanding with an error, and has destroyed the loader and
\* every regular, pending and leech peer.
C12_Close ==
  [][PoolDestroy =>
       /\ pool'.destroyed /\ ~pool'.crashed
       /\ pool'.inv.map = EmptyMap /\ pool'.inv.items = <<>>
       /\ request'.map = EmptyMap
       /\ \A h \in DOMAIN request.map :
            \E f \in ev'.finished : f.rid = request.map[h] /\ f.err # ""
       /\ \A h \in DOMAIN pool.inv.map :
            \E f \in ev'.finished : f.rid = pool.inv.map[h].id
       /\ \A id \in DOMAIN peerObj :
            (\/ peers.load = id \/ InSeq(peers.regular, id)
             \/ InSeq(peers.pending, id) \/ InSeq(peers.leeches, id))
              => (id \in DOMAIN peerObj' => peerObj'[id].closed)
       /\ peers'.load = 0 /\ peers'.regular = <<>>
       /\ peers'.pending = <<>> /\ peers'.leeches = <<>>]_vars

\* the pool was closed with a broadcast item, a request and three kinds of
\* peers outstanding
C12_Witness ==
  /\ ev.op = "destroy"
  /\ \E f \in ev.finished : f.err = "Pool closed."
  /\ \E f \in ev.finished : f.err = ""
  /\ pool.pid >= 2
  /\ \A id \in DOMAIN peerObj : peerObj[id].closed

\* C13 as stated: whenever the handling of a block or a transaction from a
\* peer ends with a VerifyError of score s, a reject packet was sent and
\* setMisbehavior(s) was called if s is not -1, and no reject packet was
\* sent if s is -1.
C13_AsStated ==
  (ev.op \in {"block", "tx"} /\ ev.result = "VerifyError") =>
    IF ev.score # 0 - 1
      THEN ev.reject /\ InSeq(ev.calls, ev.score)
      ELSE ~ev.reject

\* C13: when chain.add or mempool.addTX answers with a VerifyError of score
\* s for a block or a transaction of a peer, a reject packet is sent and
\* setMisbehavior(s) is called if s is not -1, and no reject packet is sent
\* if s is -1; the VerifyError the pool itself makes for an unrequested
\* transaction found in the rejects filter has score 0 and comes with no
\* reject packet and no setMisbehavior call.
C13_Reject ==
  (ev.op \in {"block", "tx"} /\ ev.result = "VerifyError") =>
    /\ ev.from \in {"chain", "mempool"} =>
         IF ev.score # 0 - 1
           THEN ev.reject /\ InSeq(ev.calls, ev.score)
           ELSE ~ev.reject
    /\ ev.from = "pool" => ev.score = 0 /\ ~ev.reject /\ ev.calls = <<>>
    /\ ev.from \in {"chain", "mempool", "pool"}

\* a block failed with a VerifyError of score 100 in headers mode: a reject
\* was sent and the peer was reported with the score
C13_Witness ==
  /\ ev.op = "block" /\ ev.result = "VerifyError" /\ ev.from = "chain"
  /\ ev.score = 100 /\ ev.reject
  /\ ev.calls # <<>> /\ ev.calls[1] = 100
  /\ \E host \in DOMAIN peers.misbehaving : peers.misbehaving[host] = sched.now

\* the header at position i of the message passes header.verify and links,
\* through headers before it in the message, to a block the chain knows
RECURSIVE Chained(_, _)
Chained(prefix, i) ==
  LET header == HeaderTable[prefix[i]]
  IN /\ header.valid
     /\ \/ header.prevBlock \in KnownBlocks
        \/ \E j \in 1..(i - 1) : prefix[j] = header.prevBlock /\ Chained(prefix, j)

\* C14 as stated: after every processed prefix of a headers message the
\* headers a block request is queued for are exactly the headers of the
\* prefix that pass verification and chain through prevBlock links to an
\* entry the chain knows (the blocks the chain has already are not counted:
\* nothing is requested for them).
C14_AsStated ==
  ev.op = "headers" =>
    ev.enq = {ev.prefix[i] : i \in {k \in DOMAIN ev.prefix :
                                     /\ Chained(ev.prefix, k)
                                     /\ ev.prefix[k] \notin KnownBlocks}}

\* the timer of the item of hash is due
Due(hash) ==
  hash \in DOMAIN pool.inv.map /\ pool.inv.map[hash].timeout <= sched.now

\* the step is the timeout of the item of hash
TimeoutOf(hash) ==
  /\ ev'.op = "timeout"
  /\ hash \in DOMAIN pool.inv.map
  /\ \E i \in DOMAIN ev'.emits :
       ev'.emits[i] = [name |-> "timeout", id |-> pool.inv.map[hash].id]

\* C22: a started broadcast item is finished by its timer inv.timeout after
\* its start or last refresh, not before and not later: time does not pass
\* beyond that moment with the item still there, and once the timer is due
\* the item is gone (or refreshed by a new broadcast of the same hash, or
\* the pool has died).  The step that times it out emits 'timeout', removes
\* the item from inv.map and inv.items and calls each callback that was
\* left with the error 'Timed out.'.
C22_Timeout ==
  /\ [][\A hash \in BroadcastHashes :
          /\ TimeoutOf(hash) =>
               /\ sched.now = pool.inv.map[hash].timeout
               /\ hash \notin DOMAIN pool'.inv.map
               /\ ~InSeq(pool'.inv.items, pool.inv.map[hash].id)
               /\ [id |-> pool.inv.map[hash].id, n |-> pool.inv.map[hash].cbs,
                   err |-> "Timed out."] \in ev'.called
          /\ (hash \in DOMAIN pool.inv.map /\ ~TimeoutOf(hash)) =>
               /\ sched'.now <= pool.inv.map[hash].timeout
               /\ \A c \in ev'.called : c.err # "Timed out."]_vars
  /\ \A hash \in BroadcastHashes :
       (Due(hash) /\ ~pool.crashed) ~> (~Due(hash) \/ pool.crashed)

\* an item with two callbacks left was timed out
C22_Witness ==
  /\ ev.op = "timeout"
  /\ \E c \in ev.called : c.err = "Timed out." /\ c.n = MaxCallbacks
  /\ pool.inv.map = EmptyMap /\ pool.inv.items = <<>>

\* the error the callbacks of an item are called with by the step of op
ErrOf(op) ==
  IF op = "reject" THEN "Rejected" ELSE IF op = "timeout" THEN "Timed out." ELSE ""

\* the item of hash has callbacks that were not called yet
Waiting(hash) == hash \in DOMAIN pool.inv.map /\ pool.inv.map[hash].cbs > 0

\* C38: every callback registered on a broadcast, with the first broadcast
\* or with a repeat, is called exactly once: it stays on the list of its item
\* until a step calls the whole list, that step is an ack (no error), a
\* reject (error), the timeout of the item (error) or the close of the pool
\* (no error), the list is empty afterwards, nothing is called that was not
\* on the list, and once the timer of the item is due the callbacks that
\* still wait are called.
C38_Once ==
  /\ [][/\ \A hash \in DOMAIN pool.inv.map :
             LET it == pool.inv.map[hash]
                 kept == /\ hash \in DOMAIN pool'.inv.map
                         /\ pool'.inv.map[hash].id = it.id
                 calls == {c \in ev'.called : c.id = it.id}
             IN IF calls = {}
                  THEN kept /\ pool'.inv.map[hash].cbs >= it.cbs
                  ELSE /\ ev'.op \in {"ack", "reject", "timeout", "destroy"}
                       /\ calls = {[id |-> it.id, n |-> it.cbs, err |-> ErrOf(ev'.op)]}
                       /\ kept => pool'.inv.map[hash].cbs = 0
        /\ \A c \in ev'.called :
             \E hash \in DOMAIN pool.inv.map : pool.inv.map[hash].id = c.id]_vars
  /\ \A hash \in BroadcastHashes :
       (Due(hash) /\ Waiting(hash) /\ ~pool.crashed)
         ~> (~Waiting(hash) \/ ~Due(hash) \/ pool.crashed)

\* a peer has asked for an item that was broadcast twice, each time with a
\* callback: both callbacks were called without an error and the item, still
\* announced, has none left
C38_Witness ==
  /\ ev.op = "ack"
  /\ \E hash \in DOMAIN pool.inv.map :
       /\ pool.inv.map[hash].cbs = 0
       /\ [id |-> pool.inv.map[hash].id, n |-> MaxCallbacks, err |-> ""] \in ev.called

\* C24 as stated: the ban score of a peer never decreases, whatever the pool
\* does, isMisbehaving checks included.
C24_AsStated ==
  [][\A id \in DOMAIN peerObj \cap DOMAIN peerObj' :
       peerObj'[id].banScore >= peerObj[id].banScore]_vars

\* C24: setMisbehavior(p, n) adds n to the ban score of p, and the only step
\* that lowers a ban score is the reset to 0 that an isMisbehaving check does
\* for the peer of a host whose ban entry has expired.
C24_Monotone ==
  [][/\ \A id \in DOMAIN peerObj \cap DOMAIN peerObj' :
          peerObj'[id].banScore < peerObj[id].banScore =>
            /\ peerObj'[id].banScore = 0
            /\ id \in ev'.reset
            /\ peerObj[id].host \in DOMAIN peers.misbehaving
            /\ sched.now > peers.misbehaving[peerObj[id].host] + BAN_TIME
     /\ \A id \in 1..MaxPeers, score \in Scores :
          SetMisbehavior(id, score) /\ id \in DOMAIN peerObj' =>
            peerObj'[id].banScore = peerObj[id].banScore + score]_vars

\* a check has just reset the score of a connected peer, the ban of its host
\* having expired, while another peer keeps the score it was given
C24_Witness ==
  /\ \E id \in ev.reset :
       id \in DOMAIN peerObj /\ ~peerObj[id].closed /\ peerObj[id].banScore = 0
  /\ sched.now > BAN_TIME

\* C23 as stated: the delivery that takes a peer beyond the limit of orphan
\* blocks (blocks whose parent is unknown) within the window raises the ban
\* score of the peer by 100.
C23_AsStated ==
  [][\A id \in DOMAIN peerObj :
       (/\ id \in DOMAIN peerObj'
        /\ peerObj'[id].orphans = peerObj[id].orphans + 1
        /\ peerObj'[id].orphans > MaxOrphans)
         => peerObj'[id].banScore >= peerObj[id].banScore + 100]_vars

\* the peer is connected before the step and is not after it
Closes(id) ==
  /\ Live(id)
  /\ ~(id \in DOMAIN peerObj' /\ ~peerObj'[id].closed)

\* C31 as stated: once a peer has closed and was removed, no LoadRequest of
\* that peer is left in request.map, sent or still in its block queue,
\* whether the peer was the loader or not.
C31_AsStated ==
  [][\A id \in DOMAIN peerObj :
       Closes(id) =>
         \A h \in DOMAIN request'.map : reqObj'[request'.map[h]].peer # id]_vars

\* the number of roles the peer holds: loader, pending, regular, leech
RolesOf(id) ==
  Cardinality({r \in {"loader", "pending", "regular", "leech"} :
     \/ r = "loader" /\ peers.load = id
     \/ r = "pending" /\ InSeq(peers.pending, id)
     \/ r = "regular" /\ InSeq(peers.regular, id)
     \/ r = "leech" /\ InSeq(peers.leeches, id)})

\* C39 as stated: every connected peer is in peers.all with exactly one
\* role, the host of every connected peer has an entry in peers.map that
\* names a peer of peers.all, and the removal of a peer leaves the map entry
\* of every other connected peer alone.
C39_AsStated ==
  ~pool.crashed =>
    \A id \in DOMAIN peerObj :
      Live(id) =>
        /\ InSeq(peers.all, id)
        /\ RolesOf(id) = 1
        /\ peerObj[id].host \in DOMAIN peers.map
        /\ InSeq(peers.all, peers.map[peerObj[id].host])

\* the request is in request.map and waits in the block queue of a peer
\* that is connected, while the pool is open
Queued(rid) ==
  /\ rid \in DOMAIN reqObj
  /\ reqObj[rid].hash \in DOMAIN request.map
  /\ request.map[reqObj[rid].hash] = rid
  /\ ~reqObj[rid].active
  /\ Live(reqObj[rid].peer)
  /\ InSeq(peerObj[reqObj[rid].peer].qblock, rid)
  /\ ~pool.destroyed /\ ~pool.crashed

\* C32 as stated: every LoadRequest in request.map is finished in the end;
\* a block request queued for a peer that stays connected is sent once the
\* chain is idle, also when several peers have queued requests: no request
\* stays queued for ever for a connected peer while the chain is idle.
C32_AsStated ==
  \A rid \in 1..MaxRequests : ~<>[](Queued(rid) /\ ~sched.busy)

\* C33: a block a peer sends is handed to chain.add only if a LoadRequest
\* for its hash was in request.map when it arrived; a block that was not
\* requested is added to the inv filter of the peer and nothing else
\* changes.
C33_Requested ==
  [][\A id \in 1..MaxPeers, hash \in Hashes, out \in Outcomes :
       HandleBlock(id, hash, out) =>
         IF hash \in DOMAIN request.map
           THEN ev'.result \in {"ok", "Error", "VerifyError"}
           ELSE /\ ev'.result = "unrequested"
                /\ peerObj' = [peerObj EXCEPT ![id].invFilter = @ \cup {hash}]
                /\ pool' = pool /\ peers' = peers /\ request' = request
                /\ reqObj' = reqObj /\ sched' = sched]_vars

\* a block arrived that nobody had asked for, after a request of the pool
\* was answered, and the peer that sent it is still connected
C33_Witness ==
  /\ ev.op = "block" /\ ev.result = "unrequested"
  /\ pool.uid >= 1 /\ request.map = EmptyMap
  /\ \E id \in DOMAIN peerObj : ~peerObj[id].closed /\ "bx" \in peerObj[id].invFilter

\* the live peers that were created as the loader
Loaders == {id \in DOMAIN peerObj : ~peerObj[id].closed /\ peerObj[id].kind = "loader"}

\* the pool is connected and open, and no peer is the loader
Loaderless == pool.connected /\ ~pool.destroyed /\ ~pool.crashed /\ peers.load = 0

Started(rid) ==
  /\ rid \in DOMAIN reqObj' /\ reqObj'[rid].active /\ reqObj'[rid].type = "block"
  /\ ~(rid \in DOMAIN reqObj /\ reqObj[rid].active)

\* C35: no block request is started, and so no getdata for blocks is sent,
\* while the chain is busy: a round that was scheduled while the chain was
\* busy waits until the chain drains, requests are started by the round of
\* the next tick only, and a round that finds the chain busy starts none.
C35_NotBusy ==
  /\ [](sched.send.stage = "drain" => sched.busy)
  /\ [][/\ \A rid \in 1..MaxRequests :
             Started(rid) => ~sched.busy /\ sched.send.stage = "tick"
        /\ (SendRound /\ sched.busy) =>
             /\ request' = request /\ reqObj' = reqObj
             /\ \A id \in DOMAIN peerObj' : peerObj'[id].qblock = peerObj[id].qblock]_vars

\* a round ran while the chain was busy: the request of the peer is still
\* in its queue, not started
C35_Witness ==
  /\ ev.op = "send" /\ sched.busy /\ sched.send = NoSend /\ ~pool.scheduled
  /\ \E rid \in DOMAIN reqObj : Queued(rid)

(***************************************************************************)
(* The mempool.  It reads the coins of the chain from the chain store db.  *)
(* The state of the mempool is one record: its database (t/ entries, c/    *)
(* unspent outputs, s/ spent outpoints), the counters size, spent and      *)
(* total, the orphans with their waiting lists, and the fee floor.  The    *)
(* address indexes (options.indexAddress) are off, and the m/ timestamp    *)
(* index is left out: rows of it are read by nothing that runs.            *)
(***************************************************************************)
Ks(h, i) == K("s", h, i, 0)

\* the transactions peers relay, in the order of their hashes
HashOrder == <<"cb2", "t1", "t2", "t3", "t4", "t5", "t6", "t7">>
\* the transactions the peers relay; t7, which spends an output of t5 and
\* the coinbase of B2, is relayed where the orphans are followed
Late == {"t7"}
Relayed == {HashOrder[i] : i \in 1..Len(HashOrder)} \ Late

\* the fee rates an evicted entry may carry
Rates == {0, 1000}

MIN_RELAY == 10000

NoCoins(tx) == [j \in 1..Len(tx.inputs) |-> <<>>]

\* TX.hasCoins
hasCoins(coins) == \A j \in 1..Len(coins) : coins[j] # <<>>

\* mallocUsage with 8-byte pointers
mallocUsage(alloc) == IF alloc = 0 THEN 0 ELSE ((alloc + 31) \div 16) * 16

\* the sizes of the scripts: a signature script, an OP_RETURN, a P2PKH
\* the input of t6 carries a script of 6000 bytes
InputScriptSize(input) == IF input = Prev("t4", 0) THEN 6000 ELSE 107
OutputScriptSize(output) == IF IsUnspendable(output) THEN 1 ELSE 25

RECURSIVE SumSeq(_)
SumSeq(sq) == IF sq = <<>> THEN 0 ELSE Head(sq) + SumSeq(Tail(sq))

\* memUsage(tx) without options.accurateMemory; no input has a witness
memUsage(tx) ==
  mallocUsage(Len(tx.inputs))
  + mallocUsage(Len(tx.outputs))
  + SumSeq([j \in 1..Len(tx.inputs) |-> mallocUsage(InputScriptSize(tx.inputs[j]))])
  + SumSeq([j \in 1..Len(tx.outputs) |-> mallocUsage(OutputScriptSize(tx.outputs[j]))])
  + mallocUsage(Len(tx.inputs))
  + SumSeq([j \in 1..Len(tx.inputs) |-> mallocUsage(0)])

\* getSize()
getSize(M) ==
  mallocUsage(162 + 15 * 8) * M.total
  + mallocUsage(M.spent)
  + mallocUsage(M.total)
  + mallocUsage(M.total)
  + M.size

hasTX(M, hash) == Has(M.db, Kt(hash))

\* isSpent(hash, index): the spender, <<hash>>, or <<>>
isSpent(M, prev) ==
  IF Has(M.db, Ks(prev.hash, prev.index))
    THEN <<M.db[Ks(prev.hash, prev.index)]>>
    ELSE <<>>

\* has(hash): an entry or an orphan
mempoolHas(M, hash) == hasTX(M, hash) \/ hash \in DOMAIN M.orphans

\* ChainDB.isUnspentTX: the chain has a coin of the transaction
isUnspentTX(d, hash) == \E k \in DOMAIN d : k.p = "c" /\ k.h = hash

isDoubleSpend(M, tx) == \E j \in 1..Len(tx.inputs) : isSpent(M, tx.inputs[j]) # <<>>

\* fillCoins: the inputs without a coin get the coin the mempool has
fillCoins(M, tx, coins) ==
  [j \in 1..Len(coins) |->
     IF coins[j] # <<>> THEN coins[j] ELSE getCoin(M.db, tx.inputs[j])]

\* fillAllCoins: when the mempool did not have every coin, each input that
\* no entry spends takes the coin of the chain, if the chain has it
fillAllCoins(M, d, tx) ==
  LET mine == fillCoins(M, tx, NoCoins(tx))
  IN IF hasCoins(mine) THEN mine
     ELSE [j \in 1..Len(mine) |->
             IF isSpent(M, tx.inputs[j]) # <<>> THEN mine[j]
             ELSE IF getCoin(d, tx.inputs[j]) # <<>> THEN getCoin(d, tx.inputs[j])
             ELSE mine[j]]

\* getEntry: the transaction of an entry is parsed from its raw bytes, which
\* hold no coins
EntryCoins(d, tx) == NoCoins(tx)

\* _addUnchecked: the batch
addUncheckedOps(tx, coins) ==
  <<Put(Kt(tx.hash), tx.hash)>>
  \o (IF IsCoinbase(tx) THEN <<>>
      ELSE Concat([j \in 1..Len(tx.inputs) |->
             <<Del(Kc(tx.inputs[j].hash, tx.inputs[j].index)),
               Put(Ks(tx.inputs[j].hash, tx.inputs[j].index), tx.hash)>>]))
  \o Concat([j \in 1..Len(tx.outputs) |->
       IF IsUnspendable(tx.outputs[j]) THEN <<>>
       ELSE <<Put(Kc(tx.hash, j - 1), CoinToRaw(CoinFromTX(tx, j - 1, -1)))>>])

\* _removeUnchecked: the entry is read back from the store; with limit, the
\* spender of each output is removed first, in a batch of its own
RECURSIVE removeUncheckedDb(_, _, _)
RECURSIVE RemoveSpenders(_, _, _, _)
RemoveSpenders(d, tx, j, limit) ==
  IF j > Len(tx.outputs) THEN d
  ELSE IF IsUnspendable(tx.outputs[j]) \/ ~limit \/ ~Has(d, Ks(tx.hash, j - 1))
    THEN RemoveSpenders(d, tx, j + 1, limit)
    ELSE RemoveSpenders(removeUncheckedDb(d, d[Ks(tx.hash, j - 1)], limit), tx, j + 1, limit)

removeUncheckedDb(d, hash, limit) ==
  IF ~Has(d, Kt(hash)) THEN d
  ELSE LET tx == TxTable[hash]
           coins == EntryCoins(d, tx)
           inputs ==
             IF IsCoinbase(tx) THEN <<>>
             ELSE Concat([j \in 1..Len(tx.inputs) |->
                    IF coins[j] = <<>> THEN <<>>
                    ELSE <<Del(Ks(tx.inputs[j].hash, tx.inputs[j].index)),
                           IF Has(d, Kt(tx.inputs[j].hash))
                             THEN Put(Kc(tx.inputs[j].hash, tx.inputs[j].index),
                                      CoinToRaw(coins[j][1]))
                             ELSE Del(Kc(tx.inputs[j].hash, tx.inputs[j].index))>>])
           outputs ==
             Concat([j \in 1..Len(tx.outputs) |->
               IF IsUnspendable(tx.outputs[j]) THEN <<>>
               ELSE <<Del(Kc(tx.hash, j - 1))>>])
       IN ApplyBatch(RemoveSpenders(d, tx, 1, limit),
                     <<Del(Kt(hash))>> \o inputs \o outputs)

\* Array.prototype.splice of the first occurrence
RemoveFirst(sq, x) ==
  IF ~InSeq(sq, x) THEN sq
  ELSE LET i == CHOOSE k \in 1..Len(sq) : sq[k] = x /\ \A m \in 1..(k - 1) : sq[m] # x
       IN SubSeq(sq, 1, i - 1) \o SubSeq(sq, i + 1, Len(sq))

\* removeOrphan(tx) for a transaction: it leaves the waiting lists of its
\* parents, its orphan record is deleted and totalOrphans is decremented
removeOrphanTx(M, tx) ==
  LET prevs == {tx.inputs[j].hash : j \in 1..Len(tx.inputs)}
      w == M.waiting
      after(p) == IF p \in prevs THEN RemoveFirst(w[p], tx.hash) ELSE w[p]
  IN [M EXCEPT !.waiting = [p \in {q \in DOMAIN w : after(q) # <<>>} |-> after(p)],
               !.orphans = RemoveKey(@, tx.hash),
               !.totalOrphans = @ - 1]

\* removeOrphan(hash) for a hash: nothing when no orphan has that hash
removeOrphan(M, hash) ==
  IF hash \in DOMAIN M.orphans THEN removeOrphanTx(M, TxTable[hash]) ELSE M

\* limitOrphans: random orphans of the list taken at the start are removed
RECURSIVE limitOrphans(_, _)
limitOrphans(M, keys) ==
  IF M.totalOrphans <= MaxOrphanTx THEN {M}
  ELSE IF keys = {} THEN {[M EXCEPT !.crashed = TRUE]}
  ELSE UNION {limitOrphans(removeOrphan(M, h), keys \ {h}) : h \in keys}

\* the hashes of the parents of the inputs that have no coin, once each
RECURSIVE MissingPrev(_, _, _, _)
MissingPrev(tx, coins, j, acc) ==
  IF j > Len(tx.inputs) THEN acc
  ELSE IF coins[j] = <<>> /\ ~InSeq(acc, tx.inputs[j].hash)
    THEN MissingPrev(tx, coins, j + 1, Append(acc, tx.inputs[j].hash))
    ELSE MissingPrev(tx, coins, j + 1, acc)

\* tx.getSize(): the bytes of the serialized transaction
txSize(tx) ==
  10 + SumSeq([j \in 1..Len(tx.inputs) |-> 41 + InputScriptSize(tx.inputs[j])])
     + SumSeq([j \in 1..Len(tx.outputs) |-> 9 + OutputScriptSize(tx.outputs[j])])

\* TX.getFee(): the value of the coins the inputs spend less the value of
\* the outputs; the input of a coinbase has no coin
funds(tx, side) ==
  IF side = "in"
    THEN SumSeq([j \in 1..Len(tx.inputs) |->
                   IF tx.inputs[j].hash \in DOMAIN TxTable
                     THEN TxTable[tx.inputs[j].hash].outputs[tx.inputs[j].index + 1].value
                     ELSE 0])
    ELSE SumSeq([j \in 1..Len(tx.outputs) |-> tx.outputs[j].value])

getFee(tx) ==
  IF funds(tx, "in") < funds(tx, "out") THEN 0 ELSE funds(tx, "in") - funds(tx, "out")

\* the fee rate of the entry MempoolEntry.fromTX makes of a transaction:
\* fees for 1000 bytes of size
feeRate(h) == (getFee(TxTable[h]) * 1000) \div txSize(TxTable[h])

\* TX.getMinFee(size, rate)
getMinFee(size, rate) ==
  LET fee == (rate * size) \div 1000
  IN IF fee = 0 /\ rate > 0 THEN rate ELSE fee

\* getMinRate(): M.elapsed is the number of half-lives since lastFeeUpdate
getMinRate(M) ==
  IF ~M.blockSinceBump \/ M.minFeeRate = 0 THEN [M |-> M, rate |-> M.minFeeRate]
  ELSE LET d == M.minFeeRate \div (2 ^ M.elapsed)
       IN IF d < MIN_RELAY \div 2
            THEN [M |-> [M EXCEPT !.minFeeRate = 0, !.elapsed = 0], rate |-> 0]
            ELSE [M |-> [M EXCEPT !.minFeeRate = d, !.elapsed = 0],
                  rate |-> IF d > MIN_RELAY THEN d ELSE MIN_RELAY]

\* verify(entry), the test of the fee against the rolling minimum rate
verifyFee(M, tx) ==
  LET r == getMinRate(M)
      rejectFee == getMinFee(txSize(tx), r.rate)
  IN [M |-> r.M, ok |-> ~(rejectFee > 0 /\ getFee(tx) < rejectFee)]

storeOrphan_NoWaiting(M, tx, coins) ==
  LET M1 == [M EXCEPT !.orphans = (tx.hash :> coins) @@ @,
                      !.totalOrphans = @ + 1]
  IN IF txSize(tx) > 5000 THEN {M}
     ELSE IF M1.totalOrphans > MaxOrphanTx
       THEN limitOrphans(M1, DOMAIN M1.orphans)
       ELSE {M1}

\* storeOrphan
storeOrphan(M, tx, coins) ==
  LET prevs == MissingPrev(tx, coins, 1, <<>>)
      ps == {prevs[x] : x \in 1..Len(prevs)}
      w == M.waiting
      M1 == [M EXCEPT
               !.waiting = [p \in DOMAIN w \cup ps |->
                              IF p \in ps
                                THEN Append(IF p \in DOMAIN w THEN w[p] ELSE <<>>, tx.hash)
                                ELSE w[p]],
               !.orphans = (tx.hash :> coins) @@ @,
               !.totalOrphans = @ + 1]
  IN IF txSize(tx) > 5000 THEN {M}
     ELSE IF M1.totalOrphans > MaxOrphanTx
       THEN limitOrphans(M1, DOMAIN M1.orphans)
       ELSE {M1}

\* TX.fillCoins(parent): the inputs that spend an output of parent get it
FillFrom(tx, coins, parent) ==
  [j \in 1..Len(coins) |->
     IF tx.inputs[j].hash = parent.hash /\ tx.inputs[j].index < Len(parent.outputs)
       THEN <<CoinFromTX(parent, tx.inputs[j].index, -1)>>
       ELSE coins[j]]

\* resolveOrphans(tx): the orphans waiting for tx that now have every coin
RECURSIVE ResolveEach(_, _, _, _)
ResolveEach(M, tx, hashes, resolved) ==
  IF hashes = <<>>
    THEN [M |-> [M EXCEPT !.waiting = RemoveKey(@, tx.hash)], resolved |-> resolved]
  ELSE LET h == Head(hashes)
       IN IF h \notin DOMAIN M.orphans
            THEN ResolveEach(M, tx, Tail(hashes), resolved)
          ELSE LET c == FillFrom(TxTable[h], M.orphans[h], tx)
               IN IF hasCoins(c)
                    THEN ResolveEach([M EXCEPT !.totalOrphans = @ - 1,
                                               !.orphans = RemoveKey(@, h)],
                                     tx, Tail(hashes),
                                     Append(resolved, [hash |-> h, coins |-> c]))
                    ELSE ResolveEach([M EXCEPT !.orphans[h] = c], tx, Tail(hashes), resolved)

resolveOrphans(M, tx) ==
  ResolveEach(M, tx, IF tx.hash \in DOMAIN M.waiting THEN M.waiting[tx.hash] ELSE <<>>, <<>>)

\* addUnchecked(entry): the entry is written and counted, then each orphan it
\* resolves is verified and, when it passes, added the same way.  The result
\* is the set of the states the answers of verify can lead to: it fails
\* before the fee is tested, it fails at or after that test, or it passes.
RECURSIVE addUnchecked(_, _, _)
RECURSIVE AddResolved(_, _)
AddResolved(MS, resolved) ==
  IF resolved = <<>> THEN MS
  ELSE AddResolved(
         UNION {LET v == verifyFee(m, TxTable[Head(resolved).hash])
                IN {m, v.M} \cup
                   (IF v.ok
                      THEN addUnchecked(v.M, TxTable[Head(resolved).hash], Head(resolved).coins)
                      ELSE {})
                : m \in MS},
         Tail(resolved))

addUnchecked(M, tx, coins) ==
  IF M.crashed THEN {M}
  ELSE IF ~IsCoinbase(tx) /\ ~hasCoins(coins) THEN {[M EXCEPT !.crashed = TRUE]}
  ELSE LET M1 == [M EXCEPT !.db = ApplyBatch(@, addUncheckedOps(tx, coins)),
                           !.spent = @ + Len(tx.inputs),
                           !.size = @ + memUsage(tx),
                           !.total = @ + 1,
                           !.emit = Append(@, [name |-> "tx", hash |-> tx.hash])]
           r == resolveOrphans(M1, tx)
       IN AddResolved({r.M}, r.resolved)

\* removeUnchecked(entry, limit); rate is the fee rate of the entry
removeUnchecked(M, hash, limit, rate) ==
  LET tx == TxTable[hash]
      M1 == removeOrphanTx(M, tx)
      M2 == [M1 EXCEPT !.db = removeUncheckedDb(@, hash, limit),
                       !.spent = @ - Len(tx.inputs),
                       !.size = @ - memUsage(tx),
                       !.total = @ - 1,
                       !.emit = Append(@, [name |-> "remove tx", hash |-> hash])]
  IN IF limit /\ rate + MIN_RELAY > M2.minFeeRate
       THEN [M2 EXCEPT !.minFeeRate = rate + MIN_RELAY, !.blockSinceBump = FALSE]
       ELSE M2

\* getSnapshot: the hashes of the t/ keys in key order
getSnapshot(d) == SelectSeq(HashOrder, LAMBDA h : Has(d, Kt(h)))

\* limitMempoolSize: the loop over the snapshot.  The loop over the expired
\* entries before it is handed no list and removes nothing.
RECURSIVE Evict(_, _, _, _, _)
Evict(M, hashes, entryHash, trimmed, rate) ==
  IF hashes = <<>> \/ getSize(M) <= MaxSize THEN [M |-> M, trimmed |-> trimmed]
  ELSE IF ~hasTX(M, Head(hashes)) THEN Evict(M, Tail(hashes), entryHash, trimmed, rate)
  ELSE Evict(removeUnchecked(M, Head(hashes), TRUE, rate), Tail(hashes), entryHash,
             trimmed \/ Head(hashes) = entryHash, rate)

limitMempoolSize(M, entryHash, rate) ==
  IF getSize(M) <= MaxSize THEN [M |-> M, trimmed |-> FALSE]
  ELSE Evict(M, getSnapshot(M.db), entryHash, FALSE, rate)

\* addBlock(block): the transactions of the block leave the mempool, last
\* transaction first
RECURSIVE ConfirmEach(_, _, _)
ConfirmEach(M, block, i) ==
  IF i = 0 THEN [M EXCEPT !.blockSinceBump = TRUE]
  ELSE LET tx == BlockTx(block, i)
       IN IF IsCoinbase(tx) THEN ConfirmEach(M, block, i - 1)
          ELSE IF ~hasTX(M, tx.hash) THEN ConfirmEach(removeOrphan(M, tx.hash), block, i - 1)
          ELSE ConfirmEach([removeUnchecked(M, tx.hash, FALSE, 0) EXCEPT
                              !.emit = Append(@, [name |-> "confirmed", hash |-> tx.hash])],
                           block, i - 1)

addBlock_Forward(M, block) ==
  ConfirmEach(M, [block EXCEPT !.txs = [i \in 1..Len(@) |-> @[Len(@) + 1 - i]]],
              Len(block.txs))

addBlock(M, block) == ConfirmEach(M, block, Len(block.txs))

\* removeBlock(block): the transactions of the block that the mempool does
\* not have are added without checks, first transaction first
RECURSIVE ReinsertEach(_, _, _, _)
ReinsertEach(MS, block, filled, i) ==
  IF i > Len(block.txs) THEN MS
  ELSE ReinsertEach(
         UNION {IF IsCoinbase(BlockTx(block, i)) \/ hasTX(m, block.txs[i]) \/ m.crashed
                  THEN {m}
                  ELSE {IF a.crashed THEN a
                        ELSE [a EXCEPT !.emit =
                                Append(@, [name |-> "unconfirmed", hash |-> block.txs[i]])]
                        : a \in addUnchecked(m, BlockTx(block, i), filled[i])}
                : m \in MS},
         block, filled, i + 1)

removeBlock(M, block, filled) == ReinsertEach({M}, block, filled, 1)

InitMempool ==
  /\ mempool = [db |-> EmptyDb, size |-> 0, spent |-> 0, total |-> 0,
                orphans |-> EmptyMap, waiting |-> EmptyMap, totalOrphans |-> 0,
                minFeeRate |-> 0, blockSinceBump |-> FALSE, crashed |-> FALSE,
                emit |-> <<>>, elapsed |-> 0]
  /\ mev = [op |-> "none", hash |-> "", result |-> "", passing |-> {}]

\* the mempool when an operation begins: emit collects the events of the
\* operation
Entering == [mempool EXCEPT !.emit = <<>>]

\* the half-lives that may have passed since lastFeeUpdate: none, or enough
\* of them; getMinRate reads the clock only when a block came since the bump
\* and the rate is not 0
Elapsed ==
  IF mempool.blockSinceBump /\ mempool.minFeeRate # 0 THEN {0, MaxHalvings} ELSE {0}

\* the same, k half-lives after lastFeeUpdate
EnteringAt(k) == [Entering EXCEPT !.elapsed = k]

\* the end of a mempool operation; the counters stay within the bounds.
\* passing is what the operation was told about the transactions it handles:
\* those that pass isStandard and checkFinal
DoneWith(M, op, h, result, passing) ==
  /\ M.total <= MaxTotal
  /\ M.totalOrphans >= 0 - MaxDrift
  /\ mempool' = [M EXCEPT !.elapsed = 0]
  /\ mev' = [op |-> op, hash |-> h, result |-> result, passing |-> passing]
  /\ UNCHANGED otherThanMempool

Done(M, op, h, result) == DoneWith(M, op, h, result, {})

\* addTX(tx).  valid is the answer of the checks that do not depend on the
\* mempool (isSane, isStandard, checkFinal, the scripts and the priority
\* tests of verify); k is the time since lastFeeUpdate in half-lives; rate
\* is the fee rate read from an entry that is evicted
AddTX(h) ==
  LET tx == TxTable[h]
      coins == fillAllCoins(Entering, db, tx)
  IN /\ ~mempool.crashed
     /\ cop = Idle
     /\ UNCHANGED <<db, cacheHash, cacheHeight>>
     /\ IF IsCoinbase(tx) THEN Done(Entering, "addTX", h, "coinbase")
        ELSE IF mempoolHas(Entering, h) THEN Done(Entering, "addTX", h, "txn-already-in-mempool")
        ELSE IF isUnspentTX(db, h) THEN Done(Entering, "addTX", h, "txn-already-known")
        ELSE IF isDoubleSpend(Entering, tx) THEN Done(Entering, "addTX", h, "bad-txns-inputs-spent")
        ELSE IF ~hasCoins(coins)
          THEN \E M \in storeOrphan(Entering, tx, coins) : Done(M, "addTX", h, "orphan")
        ELSE \E valid \in BOOLEAN, k \in Elapsed :
               LET v == verifyFee(EnteringAt(k), tx)
               IN IF ~valid THEN \E M \in {Entering, v.M} : Done(M, "addTX", h, "invalid")
                  ELSE IF ~v.ok THEN Done(v.M, "addTX", h, "mempool min fee not met")
                  ELSE \E M \in addUnchecked(v.M, tx, coins), rate \in Rates :
                         LET r == limitMempoolSize(M, h, rate)
                         IN Done(r.M, "addTX", h, IF r.trimmed THEN "mempool full" ELSE "ok")

\* the chain connects a block on its tip (save with connect, or connect of
\* a stored block) and the mempool handles 'add block'
AddBlock(h) ==
  LET block == BlockTable[h]
      filled == fillBlock(block, db)
      ops == (IF Has(db, Ke(h)) THEN connectOps(block)
              ELSE saveOps(block, TRUE) \o saveBlock(opts, block))
             \o connectBlock(opts, block, filled)
  IN /\ ~mempool.crashed
     /\ cop = Idle
     /\ ~IsGenesis(block)
     /\ block.prevBlock = Tip(db)
     /\ AllFilled(block, filled)
     /\ db' = ApplyBatch(db, ops)
     /\ cacheHash' = cacheHash \cup {h}
     /\ cacheHeight' = (block.height :> h) @@ cacheHeight
     /\ Done(addBlock(Entering, block), "addBlock", h, "ok")

\* the chain disconnects its tip and the mempool handles 'remove block' with
\* the block disconnectBlock filled from the undo record.  passing is the set
\* of the transactions of the block that would pass isStandard and
\* checkFinal; removeBlock asks for neither
RemoveBlock ==
  LET block == BlockTable[Tip(db)]
      filled == fillHistoryBlock(block, db)
  IN /\ ~mempool.crashed
     /\ cop = Idle
     /\ ~IsGenesis(block)
     /\ AllFilled(block, filled)
     /\ db' = ApplyBatch(db, disconnectOps(block) \o disconnectBlock(opts, block, filled))
     /\ cacheHeight' = [n \in DOMAIN cacheHeight \ {block.height} |-> cacheHeight[n]]
     /\ UNCHANGED cacheHash
     /\ \E k \in Elapsed, passing \in SUBSET {h \in Relayed : InSeq(block.txs, h)} :
          \E M \in removeBlock(EnteringAt(k), block, filled) :
            DoneWith(M, "removeBlock", block.hash, "ok", passing)

NextMempool ==
  \/ \E h \in Relayed : AddTX(h)
  \/ \E h \in BlockHashes : AddBlock(h)
  \/ RemoveBlock

\* the orphans: a transaction with two parents of which one comes in a
\* block and the other from a peer
NextOrphans ==
  \/ \E h \in {"t3", "t5"} \cup Late : AddTX(h)
  \/ \E h \in BlockHashes : AddBlock(h)
  \/ RemoveBlock

(***************************************************************************)
(* Properties of the mempool.                                              *)
(***************************************************************************)
Entries == {h \in Relayed : hasTX(mempool, h)}

Inputs(h) == {TxTable[h].inputs[j] : j \in 1..Len(TxTable[h].inputs)}

\* C5 as stated: no outpoint is spent by more than one mempool entry.
C5_AsStated ==
  \A h1 \in Entries, h2 \in Entries : h1 # h2 => Inputs(h1) \cap Inputs(h2) = {}

\* C6 as stated: no mempool entry is a coinbase, and every input of every
\* entry refers to an output of another entry or to an unspent coin of the
\* chain.
C6_AsStated ==
  \A h \in Entries :
    /\ ~IsCoinbase(TxTable[h])
    /\ \A o \in Inputs(h) :
         \/ o.hash \in Entries \ {h} /\ o.index < Len(TxTable[o.hash].outputs)
         \/ Has(db, Kc(o.hash, o.index))

\* C7 as stated: every spent-outpoint record s/o -> t has t in the mempool
\* and o among the inputs of t.
C7_AsStated ==
  \A k \in DOMAIN mempool.db :
    k.p = "s" =>
      /\ mempool.db[k] \in Entries
      /\ Prev(k.h, k.i) \in Inputs(mempool.db[k])

\* C8 as stated: after every completed addTX getSize() is at most maxSize.
C8_AsStated ==
  mev.op = "addTX" => getSize(mempool) <= MaxSize

\* the parents of the inputs of h that neither the mempool nor the chain
\* can resolve, before the step
Missing(h) ==
  LET coins == fillAllCoins(mempool, db, TxTable[h])
  IN {TxTable[h].inputs[j].hash : j \in {k \in 1..Len(coins) : coins[k] = <<>>}}

\* the step is an addTX that found an input it could not resolve
OrphanStep == mev'.op = "addTX" /\ mev'.result = "orphan"

NotAdded(h) ==
  /\ ~hasTX(mempool', h)
  /\ mempool'.db = mempool.db
  /\ \A i \in 1..Len(mempool'.emit) : mempool'.emit[i].name # "tx"

\* C15 as stated: an addTX that finds an unresolved input leaves the
\* transaction in the orphan pool, listed in waiting under every missing
\* parent, and neither inserts it into the mempool nor emits 'tx'.
C15_AsStated ==
  [][OrphanStep =>
       /\ mev'.hash \in DOMAIN mempool'.orphans
       /\ \A p \in Missing(mev'.hash) :
            p \in DOMAIN mempool'.waiting /\ InSeq(mempool'.waiting[p], mev'.hash)
       /\ NotAdded(mev'.hash)]_vars

\* C15: an addTX that finds an unresolved input never inserts the
\* transaction into the mempool and emits no 'tx'.  A transaction larger
\* than 5000 bytes is dropped and nothing changes; any other one is stored
\* in the orphan pool and listed in waiting under every missing parent,
\* unless the pool was at its cap and the random eviction that follows
\* removed it again.
C15_Orphan ==
  [][OrphanStep =>
       LET h == mev'.hash
       IN /\ NotAdded(h)
          /\ IF txSize(TxTable[h]) > 5000
               THEN mempool' = Entering
               ELSE \/ /\ h \in DOMAIN mempool'.orphans
                       /\ \A p \in Missing(h) :
                            p \in DOMAIN mempool'.waiting /\ InSeq(mempool'.waiting[p], h)
                    \/ /\ h \notin DOMAIN mempool'.orphans
                       /\ mempool.totalOrphans + 1 > MaxOrphanTx
                       /\ \A p \in DOMAIN mempool'.waiting : ~InSeq(mempool'.waiting[p], h)]_vars

\* t3 was stored as an orphan that waits for both of its parents
C15_Witness ==
  /\ mev.op = "addTX" /\ mev.result = "orphan" /\ mev.hash = "t3"
  /\ "t3" \in DOMAIN mempool.orphans
  /\ "t1" \in DOMAIN mempool.waiting /\ InSeq(mempool.waiting["t1"], "t3")
  /\ "cb2" \in DOMAIN mempool.waiting /\ InSeq(mempool.waiting["cb2"], "t3")

\* C16 as stated: after every mempool operation the orphan pool holds at
\* most MAX_ORPHAN_TX transactions.
C16_AsStated == Cardinality(DOMAIN mempool.orphans) <= MaxOrphanTx

\* C17 as stated: an addTX that is rejected with 'mempool full' leaves the
\* set of the mempool entries as it was before the call.
C17_AsStated ==
  [][(mev'.op = "addTX" /\ mev'.result = "mempool full") =>
       {h \in Relayed : hasTX(mempool', h)} = {h \in Relayed : hasTX(mempool, h)}]_vars

\* the entries the step removed with a 'remove tx' event
Evicted == {mempool'.emit[i].hash :
              i \in {k \in DOMAIN mempool'.emit : mempool'.emit[k].name = "remove tx"}}

\* C18 as stated: an addTX that evicts for size evicts the lowest fee rate
\* first: no entry that stays in the mempool has a lower fee rate than an
\* entry that was evicted.
C18_AsStated ==
  [][mev'.op = "addTX" =>
       \A e \in Evicted :
         \A h \in {x \in Relayed : hasTX(mempool', x)} : feeRate(h) >= feeRate(e)]_vars

\* C19 as stated: after an addTX that evicted entries for size the rolling
\* minimum fee rate is at least the fee rate of each evicted entry plus
\* minReasonableFee; and while that minimum stands (no block since the bump)
\* an addTX whose fee is below the minimum rate times its size does not
\* insert the transaction and, when no other check stops it first, fails
\* with the insufficientfee error of the fee test.
C19_AsStated ==
  [][mev'.op = "addTX" =>
       /\ \A e \in Evicted : mempool'.minFeeRate >= feeRate(e) + MIN_RELAY
       /\ LET tx == TxTable[mev'.hash]
              rejectFee == getMinFee(txSize(tx), mempool.minFeeRate)
          IN (~mempool.blockSinceBump /\ getFee(tx) < rejectFee) =>
               /\ hasTX(mempool', mev'.hash) => hasTX(mempool, mev'.hash)
               /\ mev'.result \notin {"ok", "mempool full"}]_vars

\* the transactions of the block of the step other than its coinbase
BlockTxs == {h \in {BlockTable[mev'.hash].txs[i] : i \in 1..Len(BlockTable[mev'.hash].txs)} :
               ~IsCoinbase(TxTable[h])}

\* the hashes of the 'confirmed' events of the step, in their order
ConfirmedEvents ==
  LET c == SelectSeq(mempool'.emit, LAMBDA e : e.name = "confirmed")
  IN [i \in 1..Len(c) |-> c[i].hash]

\* the transactions of the block that were entries, last one first
EntriesReversed ==
  LET txs == BlockTable[mev'.hash].txs
      rev == [i \in 1..Len(txs) |-> txs[Len(txs) + 1 - i]]
  IN SelectSeq(rev, LAMBDA h : h \in BlockTxs /\ hasTX(mempool, h))

\* the orphans that spend an output of a transaction of the block
Dependents(orphans) ==
  {o \in orphans : \E j \in 1..Len(TxTable[o].inputs) : TxTable[o].inputs[j].hash \in BlockTxs}

\* C20 as stated: after addBlock(B) no transaction of B but the coinbase is
\* in the mempool, each one that was an entry was removed in reverse block
\* order with a 'confirmed' event, no orphan that depended on one of them is
\* left, and blockSinceBump is true.
C20_AsStated ==
  [][mev'.op = "addBlock" =>
       /\ \A h \in BlockTxs : ~hasTX(mempool', h) /\ h \notin DOMAIN mempool'.orphans
       /\ ConfirmedEvents = EntriesReversed
       /\ Dependents(DOMAIN mempool'.orphans) = {}
       /\ mempool'.blockSinceBump]_vars

\* C20: after addBlock(B) no transaction of B but the coinbase is an entry
\* or an orphan of the mempool, each one that was an entry was removed in
\* reverse block order with a 'confirmed' event, and blockSinceBump is
\* true.  The orphans that are not in B stay in the orphan pool, those that
\* depended on a transaction of B included.
C20_AddBlock ==
  [][mev'.op = "addBlock" =>
       /\ \A h \in BlockTxs : ~hasTX(mempool', h) /\ h \notin DOMAIN mempool'.orphans
       /\ ConfirmedEvents = EntriesReversed
       /\ DOMAIN mempool'.orphans = DOMAIN mempool.orphans \ BlockTxs
       /\ mempool'.blockSinceBump]_vars

\* B2 confirmed the entries t2 and t1, in that order, while the orphan t3,
\* which spends an output of t1, stayed
C20_Witness ==
  /\ mev.op = "addBlock" /\ mev.hash = "B2"
  /\ SelectSeq(mempool.emit, LAMBDA e : e.name = "confirmed")
       = <<[name |-> "confirmed", hash |-> "t2"], [name |-> "confirmed", hash |-> "t1"]>>
  /\ "t3" \in DOMAIN mempool.orphans
  /\ ~hasTX(mempool, "t1") /\ ~hasTX(mempool, "t2")
  /\ mempool.blockSinceBump

\* the hashes of the 'unconfirmed' events of the step
Unconfirmed ==
  {mempool'.emit[i].hash :
     i \in {k \in DOMAIN mempool'.emit : mempool'.emit[k].name = "unconfirmed"}}

\* C21 as stated: removeBlock(B) reinserts, with an 'unconfirmed' event,
\* every transaction of B but the coinbase that is not in the mempool and
\* passes the finality and standardness checks of a freshly received
\* transaction, and reinserts no transaction that fails them.
C21_AsStated ==
  [][(mev'.op = "removeBlock" /\ ~mempool'.crashed) =>
       \A h \in {x \in Relayed : InSeq(BlockTable[mev'.hash].txs, x)} :
         IF IsCoinbase(TxTable[h]) \/ hasTX(mempool, h)
           THEN h \notin Unconfirmed
           ELSE IF h \in mev'.passing
             THEN hasTX(mempool', h) /\ h \in Unconfirmed
             ELSE ~hasTX(mempool', h) /\ h \notin Unconfirmed]_vars

\* the transactions the step inserted into the mempool
Inserted ==
  {mempool'.emit[i].hash : i \in {k \in DOMAIN mempool'.emit : mempool'.emit[k].name = "tx"}}

\* every input of the transaction has a coin in the mempool or in the
\* chain after the step
Resolvable(h) == hasCoins(fillAllCoins(mempool', db', TxTable[h]))

\* C36 as stated: after a transaction was inserted into the mempool, every
\* orphan that spends it and whose inputs can now all be resolved has left
\* the orphan pool (to be verified and inserted), and so on for the orphans
\* of those that were inserted; and no transaction is an orphan and a
\* mempool entry at once.
C36_AsStated ==
  [][/\ \A h \in DOMAIN mempool'.orphans : ~hasTX(mempool', h)
     /\ ~mempool'.crashed =>
          \A h \in DOMAIN mempool'.orphans :
            (\E j \in 1..Len(TxTable[h].inputs) : TxTable[h].inputs[j].hash \in Inserted)
              => ~Resolvable(h)]_vars

\* C40 as stated: whatever the mempool has done, the counter totalOrphans is
\* the number of transactions in the orphan map, and it is never negative.
C40_AsStated ==
  /\ mempool.totalOrphans = Cardinality(DOMAIN mempool.orphans)
  /\ mempool.totalOrphans >= 0

(***************************************************************************)
(* Scripts (script.decode, script.encode and script.execute, utils.js).    *)
(* A raw script is a sequence of bytes; a decoded script is a sequence of  *)
(* instructions: a data push with the form it was read in (the hidden      *)
(* pushdata property), a small number, or an opcode by name.  A byte       *)
(* without a name in the opcode table is kept as a number.                 *)
(***************************************************************************)
Bytes == {0, 1, 2, 76, 77, 78, 81, 118, 255}

RECURSIVE Strings(_, _)
Strings(A, n) ==
  IF n = 0 THEN {<<>>}
  ELSE Strings(A, n - 1) \cup {Append(s, a) : s \in {x \in Strings(A, n - 1) : Len(x) = n - 1}, a \in A}

\* scripts of up to MaxRaw bytes, and scripts that start with a PUSHDATA4
\* whose length field is complete
Raws ==
  Strings(Bytes, MaxRaw)
    \cup {<<78, n, 0, 0, 0>> \o t : n \in 0..2, t \in Strings({1, 118}, 2)}

Data(d, pd, len) == [k |-> "data", d |-> d, pd |-> pd, len |-> len, n |-> 0, name |-> ""]
Num(n) == [k |-> "num", d |-> <<>>, pd |-> "", len |-> 0, n |-> n, name |-> ""]
Op(name) == [k |-> "op", d |-> <<>>, pd |-> "", len |-> 0, n |-> 0, name |-> name]

\* scripts that were not decoded: pushes without the pushdata property
Built ==
  Strings({Data(<<>>, "none", 0), Data(<<1>>, "none", 0), Data(<<7, 7>>, "none", 0),
           Num(1), Num(16), Op("dup")}, 2)

\* constants.opcodesByVal and constants.opcodes, for the opcodes used here
opcodesByVal(b) ==
  IF b = 76 THEN "pushdata1" ELSE IF b = 77 THEN "pushdata2"
  ELSE IF b = 78 THEN "pushdata4" ELSE IF b = 118 THEN "dup" ELSE ""

opcodes(instr) ==
  IF instr.k = "op"
    THEN CHOOSE b \in 0..255 : opcodesByVal(b) = instr.name
    ELSE IF instr.n = 0 THEN 0
    ELSE IF instr.n \in 1..16 THEN 80 + instr.n
    ELSE instr.n

\* s.slice(i, j) with i and j counted from 0
Slice(s, i, j) ==
  IF i >= Len(s) \/ j <= i THEN <<>> ELSE SubSeq(s, i + 1, IF j > Len(s) THEN Len(s) ELSE j)

\* the byte at offset off as a bit operation sees it: a missing byte is 0
ByteAt(s, off) == IF off < Len(s) THEN s[off + 1] ELSE 0

readU16(s, off) == ByteAt(s, off) + 256 * ByteAt(s, off + 1)

\* the last byte is multiplied, not shifted: a missing byte gives NaN
readU32(s, off) ==
  IF off + 3 >= Len(s) THEN NaN
  ELSE ByteAt(s, off) + 256 * ByteAt(s, off + 1) + 65536 * ByteAt(s, off + 2)
         + 16777216 * ByteAt(s, off + 3)

writeU16(num) ==
  IF num = NaN THEN <<0, 0>> ELSE <<num % 256, (num \div 256) % 256>>

writeU32(num) ==
  IF num = NaN THEN <<0, 0, 0, 0>>
  ELSE <<num % 256, (num \div 256) % 256, (num \div 65536) % 256, (num \div 16777216) % 256>>

\* script.decode(s): i is the offset of the next byte
RECURSIVE decodeFrom(_, _, _)
decodeFrom(s, i, acc) ==
  IF i >= Len(s) THEN acc
  ELSE LET b == s[i + 1]
           j == i + 1
           opcode == opcodesByVal(b)
           plain == IF opcode # "" THEN Op(opcode) ELSE Num(b)
       IN IF b >= 1 /\ b <= 75
            THEN decodeFrom(s, j + b, Append(acc, Data(Slice(s, j, j + b), "null", b)))
          ELSE IF b = 0 THEN decodeFrom(s, j, Append(acc, Data(<<>>, "none", 0)))
          ELSE IF b >= 81 /\ b <= 96 THEN decodeFrom(s, j, Append(acc, Num(b - 80)))
          ELSE IF j >= Len(s) THEN decodeFrom(s, j, Append(acc, plain))
          ELSE IF opcode = "pushdata1"
            THEN LET len == s[j + 1]
                 IN decodeFrom(s, j + 1 + len,
                               Append(acc, Data(Slice(s, j + 1, j + 1 + len), opcode, len)))
          ELSE IF opcode = "pushdata2"
            THEN LET len == readU16(s, j)
                 IN decodeFrom(s, j + 2 + len,
                               Append(acc, Data(Slice(s, j + 2, j + 2 + len), opcode, len)))
          ELSE IF opcode = "pushdata4"
            THEN LET len == readU32(s, j)
                 IN IF len = NaN THEN Append(acc, Data(<<>>, opcode, NaN))
                    ELSE decodeFrom(s, j + 4 + len,
                                    Append(acc, Data(Slice(s, j + 4, j + 4 + len), opcode, len)))
          ELSE decodeFrom(s, j, Append(acc, plain))

decode(s) == decodeFrom(s, 0, <<>>)

encodeInstr_Minimal(instr) ==
  IF instr.k = "data"
    THEN IF Len(instr.d) = 0 THEN <<0>>
         ELSE IF Len(instr.d) <= 75 THEN <<Len(instr.d)>> \o instr.d
         ELSE IF Len(instr.d) <= 255 THEN <<76, Len(instr.d)>> \o instr.d
         ELSE IF Len(instr.d) <= 65535 THEN <<77>> \o writeU16(Len(instr.d)) \o instr.d
         ELSE <<78>> \o writeU32(Len(instr.d)) \o instr.d
    ELSE <<opcodes(instr)>>

\* script.encode, one instruction: a push that was decoded keeps its form
encodeInstr(instr) ==
  IF instr.k = "data" /\ instr.pd # "none"
    THEN IF instr.pd = "null" THEN <<instr.len>> \o instr.d
         ELSE IF instr.pd = "pushdata1" THEN <<76, instr.len>> \o instr.d
         ELSE IF instr.pd = "pushdata2" THEN <<77>> \o writeU16(instr.len) \o instr.d
         ELSE <<78>> \o writeU32(instr.len) \o instr.d
  ELSE IF instr.k = "data"
    THEN IF Len(instr.d) = 0 THEN <<0>>
         ELSE IF Len(instr.d) <= 75 THEN <<Len(instr.d)>> \o instr.d
         ELSE IF Len(instr.d) <= 255 THEN <<76, Len(instr.d)>> \o instr.d
         ELSE IF Len(instr.d) <= 65535 THEN <<77>> \o writeU16(Len(instr.d)) \o instr.d
         ELSE <<78>> \o writeU32(Len(instr.d)) \o instr.d
  ELSE <<opcodes(instr)>>

encode(s) == Concat([i \in 1..Len(s) |-> encodeInstr(s[i])])

\* script.execute(s, stack): checkPush is called without the value and so
\* accepts every push; an opcode without a case is unknown
RECURSIVE execute(_, _, _)
execute(s, pc, stack) ==
  IF pc > Len(s) THEN [ok |-> TRUE, stack |-> stack]
  ELSE LET o == s[pc]
       IN IF o.k = "data" THEN execute(s, pc + 1, Append(stack, o.d))
          ELSE IF o.k = "num" /\ o.n >= 1 /\ o.n <= 16
            THEN execute(s, pc + 1, Append(stack, <<o.n>>))
          ELSE IF o.k = "op" /\ o.name = "dup"
            THEN IF Len(stack) = 0 THEN [ok |-> FALSE, stack |-> stack]
                 ELSE execute(s, pc + 1, Append(stack, stack[Len(stack)]))
          ELSE [ok |-> FALSE, stack |-> stack]

NoScript ==
  [stage |-> "none", raw |-> <<>>, ops |-> <<>>, enc |-> <<>>, ops2 |-> <<>>,
   enc2 |-> <<>>, ok |-> FALSE, stack |-> <<>>]

ScriptOff == scr = NoScript

\* a raw script that arrived, or a script the node built
InitScript ==
  \/ \E raw \in Raws : scr = [NoScript EXCEPT !.stage = "raw", !.raw = raw]
  \/ \E ops \in Built : scr = [NoScript EXCEPT !.stage = "built", !.ops = ops]

Decode ==
  /\ scr.stage = "raw"
  /\ scr' = [scr EXCEPT !.stage = "decoded", !.ops = decode(scr.raw)]
  /\ UNCHANGED otherThanScript

Encode ==
  /\ scr.stage \in {"decoded", "built"}
  /\ scr' = [scr EXCEPT !.stage = IF @ = "built" THEN "encodedBuilt" ELSE "encoded",
                        !.enc = encode(scr.ops)]
  /\ UNCHANGED otherThanScript

\* the encoded script is decoded and encoded again
Recode ==
  /\ scr.stage \in {"encoded", "encodedBuilt"}
  /\ scr' = [scr EXCEPT !.stage = IF @ = "encoded" THEN "recoded" ELSE "recodedBuilt",
                        !.ops2 = decode(scr.enc),
                        !.enc2 = encode(decode(scr.enc))]
  /\ UNCHANGED otherThanScript

Execute ==
  /\ scr.stage = "decoded"
  /\ LET r == execute(scr.ops, 1, <<>>)
     IN scr' = [scr EXCEPT !.stage = "executed", !.ok = r.ok, !.stack = r.stack]
  /\ UNCHANGED otherThanScript

NextScript == Decode \/ Encode \/ Recode \/ Execute

(***************************************************************************)
(* Properties of scripts.                                                  *)
(***************************************************************************)
\* how the pushes of a raw script end: "ok", or for the first PUSHDATA1/2/4
\* that is cut off, "nolength" (no length byte), "partial" (some but not
\* all length bytes) or "short" (fewer data bytes than declared)
RECURSIVE Walk(_, _)
Walk(s, i) ==
  IF i >= Len(s) THEN "ok"
  ELSE LET b == s[i + 1]
           rest == Len(s) - (i + 1)
           need == IF b = 76 THEN 1 ELSE IF b = 77 THEN 2 ELSE 4
           len == IF b = 76 THEN s[i + 2]
                  ELSE IF b = 77 THEN s[i + 2] + 256 * s[i + 3]
                  ELSE s[i + 2] + 256 * s[i + 3] + 65536 * s[i + 4] + 16777216 * s[i + 5]
       IN IF b >= 1 /\ b <= 75 THEN Walk(s, i + 1 + b)
          ELSE IF b \notin {76, 77, 78} THEN Walk(s, i + 1)
          ELSE IF rest = 0 THEN "nolength"
          ELSE IF rest < need THEN "partial"
          ELSE IF rest - need < len THEN "short"
          ELSE Walk(s, i + 1 + need + len)

PushForm(raw) == Walk(raw, 0)

C28_AsStated ==
  scr.stage = "executed" /\ PushForm(scr.raw) # "ok" => ~scr.ok

(***************************************************************************)
(* The specifications.                                                     *)
(***************************************************************************)
ChainOff ==
  /\ InitChain
  /\ opts = [spv |-> FALSE, prune |-> FALSE, indexTX |-> FALSE, indexAddress |-> FALSE,
             pruneAfterHeight |-> 0, fresh |-> <<0, 0, 0, 0>>]

PoolOff == InitPool /\ seeds.originalSeeds = <<"h1">>

InitOfChain == InitChain /\ PoolOff /\ InitMempool /\ ScriptOff
InitOfPool == InitPool /\ ChainOff /\ InitMempool /\ ScriptOff
InitOfSync == InitPool /\ seeds.originalSeeds = <<"h1", "h2">> /\ ChainOff /\ InitMempool /\ ScriptOff
InitOfMempool == InitMempool /\ ScriptOff /\ ChainOff /\ PoolOff

SpecChain == InitOfChain /\ [][NextChain]_vars
\* reset is followed with every option in SPV mode and without the indexes
\* of transactions and addresses in a full node
InitOfReset ==
  /\ InitOfChain
  /\ opts.pruneAfterHeight = 0
  /\ opts.fresh = <<0, 0, 0, 0>>
  /\ opts.spv \/ (~opts.indexTX /\ ~opts.indexAddress)
SpecReset == InitOfReset /\ [][NextReset]_vars

SpecPool == InitOfPool /\ [][NextPool]_vars

SpecSync == InitOfSync /\ [][NextSync]_vars

SpecMempool == InitOfMempool /\ [][NextMempool]_vars

InitOfScript == InitScript /\ ChainOff /\ PoolOff /\ InitMempool
SpecScript == InitOfScript /\ [][NextScript]_vars

InitOfRelay ==
  /\ \E headers \in BOOLEAN : PoolInit(headers)
  /\ seeds.originalSeeds = <<"h1">>
  /\ ChainOff /\ InitMempool /\ ScriptOff
SpecRelay == InitOfRelay /\ [][NextRelay]_vars

InitOfHeaders ==
  /\ PoolInit(TRUE)
  /\ seeds.originalSeeds = <<"h1">>
  /\ ChainOff /\ InitMempool /\ ScriptOff
SpecHeaders == InitOfHeaders /\ [][NextHeaders]_vars

\* the event loop runs a timer that is due
InitOfBroadcast == InitPool /\ seeds.originalSeeds = <<"h1">> /\ ChainOff /\ InitMempool /\ ScriptOff
SpecBroadcast ==
  /\ InitOfBroadcast
  /\ [][NextBroadcast]_vars
  /\ WF_vars(\E hash \in BroadcastHashes : BroadcastTimesOut(hash))

\* the event loop runs the callbacks that wait for the next tick and the
\* timers that are due, and the chain finishes the work it has taken up
InitOfSched == InitPool /\ seeds.originalSeeds = <<"h1">> /\ ChainOff /\ InitMempool /\ ScriptOff
SpecSched ==
  /\ InitOfSched
  /\ [][NextSched]_vars
  /\ WF_vars(SendRound)
  /\ WF_vars(ChainDrain)

\* time passes and the retry timers of the pool fire when they are due
SpecLoader ==
  /\ InitOfPool
  /\ [][NextPool]_vars
  /\ WF_vars(Tick(RetryDelay))
  /\ \A i \in 1..MaxPeers : WF_vars(TimerFires(i))

SpecOrphans == InitOfMempool /\ [][NextOrphans]_vars

====
